---- MODULE Spec2Model ----
(***************************************************************************)
(* OrderFlow: the order entity, the JSON store, the commands that change  *)
(* orders (add, update-status, rollback, update, assign, delete) and the   *)
(* commands that report on them (view, export, check-duplicates).          *)
(*                                                                         *)
(* Conventions of the model.                                               *)
(*  - A Python string that the code strips, splits or parses is a sequence *)
(*    of one-character strings (<<"a", ":", "2">>).  Other strings are     *)
(*    TLA+ strings.                                                        *)
(*  - A Python value that may be None is a sequence of length 0 (None) or  *)
(*    1 (the value).                                                       *)
(*  - order_total is an integer number of currency units.                  *)
(*  - A timestamp is the number of a clock tick; datetime.now() is an      *)
(*    input of the command that reads it.                                  *)
(*  - order_id is the number of the UUID in the order of generation.       *)
(***************************************************************************)
EXTENDS Integers, Sequences, FiniteSets, TLC

VARIABLES
    store,      \* the JSON array of the backing file: a sequence of dicts
    issued,     \* how many UUIDs uuid4() has generated so far
    last,       \* the last command run, its arguments and what it printed
    pre,        \* the backing file as it was before the last command
    pc,         \* "prompt": no command is running; "ran": one has just run
    wrote,      \* whether the last command called _write_all
    created,    \* order_id -> the status and time the order was created with
    dinput,     \* the dishes argument handed to the Order constructor
    dresult,    \* what the constructor made of it
    mem,        \* the Order object the last command handed to save_order
                \* (not followed through the loop of a batch)
    query,      \* the orders and the arguments handed to a function of view
    shown,      \* what that function returned
    procs       \* the invocations that run at one time on one backing file:
                \* their positions and local values, and the state of the file

vars ==
    <<store, issued, last, pre, pc, wrote, created, dinput, dresult, mem,
      query, shown, procs>>

\* the variables of the Order constructor and of view
others == <<dinput, dresult, query, shown, procs>>

-----------------------------------------------------------------------------
(* Bounds of the model *)

MaxBatch == 2           \* IDs of one bulk update
MaxAssignments == 1     \* entries of all assignment histories together
MaxDishChars == 5       \* characters of a dishes string
MaxDishItems == 2       \* elements of a dishes list

\* the UUIDs uuid4() generates, in the order of generation
Uuids == {1, 2}

SeqsUpTo(S, n) == UNION {[1..k -> S] : k \in 0..n}

-----------------------------------------------------------------------------
(* Python values *)

None == <<>>
Some(v) == <<v>>
IsNone(o) == o = <<>>
The(o) == o[1]

\* str.strip(): leading and trailing whitespace removed
RECURSIVE LStrip(_)
LStrip(s) == IF s # <<>> /\ Head(s) = " " THEN LStrip(Tail(s)) ELSE s

RECURSIVE RStrip(_)
RStrip(s) ==
    IF s # <<>> /\ s[Len(s)] = " " THEN RStrip(SubSeq(s, 1, Len(s) - 1)) ELSE s

Strip(s) == RStrip(LStrip(s))

\* the index of the first occurrence of character c in s, 0 if there is none
RECURSIVE FindFrom(_, _, _)
FindFrom(s, c, i) ==
    IF i > Len(s) THEN 0
    ELSE IF s[i] = c THEN i
    ELSE FindFrom(s, c, i + 1)

Find(s, c) == FindFrom(s, c, 1)

\* str.split(c): the fields between the occurrences of c, empty fields kept
RECURSIVE Split(_, _)
Split(s, c) ==
    LET i == Find(s, c) IN
    IF i = 0 THEN <<s>>
    ELSE <<SubSeq(s, 1, i - 1)>> \o Split(SubSeq(s, i + 1, Len(s)), c)

\* c.join(parts)
RECURSIVE Join(_, _)
Join(parts, c) ==
    IF parts = <<>> THEN <<>>
    ELSE IF Len(parts) = 1 THEN parts[1]
    ELSE parts[1] \o <<c>> \o Join(Tail(parts), c)

Digits == <<"0", "1", "2", "3", "4", "5", "6", "7", "8", "9">>
IsDigit(c) == \E d \in 1..10 : Digits[d] = c
DigitVal(c) == (CHOOSE d \in 1..10 : Digits[d] = c) - 1

RECURSIVE DigitsValue(_, _)
DigitsValue(s, acc) ==
    IF s = <<>> THEN acc ELSE DigitsValue(Tail(s), 10 * acc + DigitVal(Head(s)))

\* int(text) of a str: None stands for ValueError.  Surrounding whitespace
\* and one sign are accepted; the characters of the model hold no "_".
ParseInt(text) ==
    LET value(s) ==
            LET signed == s # <<>> /\ Head(s) \in {"-", "+"}
                body == IF signed THEN Tail(s) ELSE s
            IN  IF body = <<>> \/ \E i \in 1..Len(body) : ~IsDigit(body[i])
                THEN None
                ELSE IF signed /\ Head(s) = "-"
                THEN Some(0 - DigitsValue(body, 0))
                ELSE Some(DigitsValue(body, 0))
    IN  value(Strip(text))

-----------------------------------------------------------------------------
(* Order: src/orderflow/models/order.py *)

VALID_STATUSES == <<"new", "preparing", "delivered", "canceled">>

IsValidStatus(s) == \E i \in 1..Len(VALID_STATUSES) : VALID_STATUSES[i] = s

\* Python values of a dish quantity: an int, a str or null
PyInt(n) == [int |-> n]
PyStr(s) == [str |-> s]
PyNull == [null |-> TRUE]

\* The value of a dishes argument or attribute:
\*   [kind |-> "none"]                    None
\*   [kind |-> "str",   s |-> chars]      "Name:qty, Name2"
\*   [kind |-> "names", names |-> <<chars, ...>>]     list of str
\*   [kind |-> "dicts", dicts |-> <<dict, ...>>]      list of dict
\* A dict is a record with the keys it holds, among name (chars) and
\* quantity (a Python value).
DishDict(n, q) == [name |-> n, quantity |-> PyInt(q)]
DictList(items) == [kind |-> "dicts", dicts |-> items]
NameList(items) == [kind |-> "names", names |-> items]
DishStr(s) == [kind |-> "str", s |-> s]

\* bool(dishes)
DishesTruthy(d) ==
    CASE d.kind = "none" -> FALSE
      [] d.kind = "str" -> d.s # <<>>
      [] d.kind = "names" -> d.names # <<>>
      [] OTHER -> d.dicts # <<>>

\* qty = int(qty) without the "if qty < 1: qty = 1" of line 128
CoerceQuantity_NoClamp(q) ==
    LET qty(n) == IF IsNone(n) THEN 1 ELSE The(n)
    IN  qty(CASE "int" \in DOMAIN q -> Some(q.int)
              [] "str" \in DOMAIN q -> ParseInt(q.str)
              [] OTHER -> None)

\* lines 125-131: qty = int(qty), 1 when that fails or gives less than 1
CoerceQuantity(q) ==
    LET qty(n) == IF IsNone(n) \/ The(n) < 1 THEN 1 ELSE The(n)
    IN  qty(CASE "int" \in DOMAIN q -> Some(q.int)
              [] "str" \in DOMAIN q -> ParseInt(q.str)
              [] OTHER -> None)

\* lines 121-137: a list of dicts
RECURSIVE ParseDictItems(_)
ParseDictItems(items) ==
    IF items = <<>> THEN <<>>
    ELSE LET dish == Head(items)
             qty == IF "quantity" \in DOMAIN dish THEN dish.quantity ELSE PyInt(1)
         IN  (IF "name" \in DOMAIN dish
              THEN <<DishDict(Strip(dish.name), CoerceQuantity(qty))>>
              ELSE <<>>) \o ParseDictItems(Tail(items))

\* line 141: a list of names
RECURSIVE ParseNameItems(_)
ParseNameItems(items) ==
    IF items = <<>> THEN <<>>
    ELSE (IF Strip(Head(items)) # <<>>
          THEN <<DishDict(Strip(Head(items)), 1)>>
          ELSE <<>>) \o ParseNameItems(Tail(items))

\* line 147: [item.strip() for item in dishes.split(',') if item.strip()]
RECURSIVE StripNonEmpty(_)
StripNonEmpty(parts) ==
    IF parts = <<>> THEN <<>>
    ELSE (IF Strip(Head(parts)) # <<>> THEN <<Strip(Head(parts))>> ELSE <<>>)
         \o StripNonEmpty(Tail(parts))

\* lines 149-174: the items of a delimited string
RECURSIVE ParseStrItems(_)
ParseStrItems(items) ==
    IF items = <<>> THEN <<>>
    ELSE LET item == Head(items)
             i == Find(item, ":")
             dish_name == Strip(SubSeq(item, 1, i - 1))
             quantity == CoerceQuantity(PyStr(SubSeq(item, i + 1, Len(item))))
         IN  (IF i # 0
              THEN (IF dish_name = <<>> THEN <<>>
                    ELSE <<DishDict(dish_name, quantity)>>)
              ELSE <<DishDict(Strip(item), 1)>>) \o ParseStrItems(Tail(items))

\* Order._parse_dishes: the list of {name, quantity} dicts
ParseDishes(dishes) ==
    IF ~DishesTruthy(dishes) THEN <<>>
    ELSE CASE dishes.kind = "dicts" -> ParseDictItems(dishes.dicts)
           [] dishes.kind = "names" -> ParseNameItems(dishes.names)
           [] dishes.kind = "str" ->
                ParseStrItems(StripNonEmpty(Split(dishes.s, ",")))
           [] OTHER -> <<>>

\* lines 84-90: tags is None, a list of str or a comma-separated str
ParseTags(tags) ==
    CASE tags.kind = "none" -> <<>>
      [] tags.kind = "names" -> StripNonEmpty(tags.names)
      [] OTHER -> StripNonEmpty(Split(tags.s, ","))

\* lines 94-103: two-element entries get the note None
RECURSIVE UpgradeHistory(_)
UpgradeHistory(h) ==
    IF h = <<>> THEN <<>>
    ELSE <<IF "note" \in DOMAIN Head(h) THEN Head(h)
           ELSE [ts |-> Head(h).ts, status |-> Head(h).status, note |-> None]>>
         \o UpgradeHistory(Tail(h))

HistoryEntry(ts, status, note) == [ts |-> ts, status |-> status, note |-> note]

\* the check of order_total: float(order_total) > 0
TotalAccepted(order_total) == order_total > 0

\* Order.__init__: Some(order), or None when it raises ValueError.
\* a.order_id, a.order_time, a.notes and a.status_history may be None;
\* fresh is the UUID uuid4() would give and now the time datetime.now() gives.
OrderInit(a, fresh, now) ==
    LET order_time == IF IsNone(a.order_time) THEN now ELSE The(a.order_time)
        init(dishes) ==
        IF Strip(a.customer_name) = <<>> THEN None
        ELSE IF dishes = <<>> THEN None
        ELSE IF ~TotalAccepted(a.order_total) THEN None
        ELSE IF ~IsValidStatus(a.status) THEN None
        ELSE Some([
            customer_name |-> Strip(a.customer_name),
            delivery_info |-> a.delivery_info,
            assignment_history |-> a.assignment_history,
            dishes |-> DictList(dishes),
            order_total |-> a.order_total,
            status |-> a.status,
            order_id |-> IF IsNone(a.order_id) THEN fresh ELSE The(a.order_id),
            order_time |-> order_time,
            tags |-> ParseTags(a.tags),
            notes |-> IF IsNone(a.notes) THEN "" ELSE The(a.notes),
            status_history |->
                IF IsNone(a.status_history)
                THEN <<HistoryEntry(order_time, a.status, None)>>
                ELSE UpgradeHistory(The(a.status_history))])
    IN  init(ParseDishes(a.dishes))

\* Order.to_dict
ToDict(o) ==
    [order_id |-> o.order_id,
     customer_name |-> o.customer_name,
     dishes |-> o.dishes,
     order_total |-> o.order_total,
     status |-> o.status,
     order_time |-> o.order_time,
     tags |-> Join(o.tags, ","),
     notes |-> o.notes,
     status_history |-> o.status_history,
     delivery_info |-> o.delivery_info,
     assignment_history |-> o.assignment_history]

\* Order.from_dict, for a dict holding the keys to_dict writes (status_history
\* may be missing): Some(order), or None when the constructor raises.  The
\* dict holds an order_id and an order_time, so uuid4() and now() are not read.
FromDict(data) ==
    OrderInit(
        [customer_name |-> data.customer_name,
         dishes |-> data.dishes,
         order_total |-> data.order_total,
         status |-> data.status,
         order_id |-> Some(data.order_id),
         order_time |-> Some(data.order_time),
         tags |-> DishStr(data.tags),
         notes |-> Some(data.notes),
         status_history |->
            IF "status_history" \in DOMAIN data THEN Some(data.status_history)
            ELSE Some(<<[ts |-> data.order_time, status |-> data.status]>>),
         delivery_info |-> data.delivery_info,
         assignment_history |-> data.assignment_history],
        data.order_id, data.order_time)

-----------------------------------------------------------------------------
(* JsonStorage: src/orderflow/storage/json_storage.py.  Reading and writing *)
(* the file succeed; the file holds a JSON list.                            *)

\* the index of the first dict of the file with this order_id, 0 if none
RECURSIVE IndexOfFrom(_, _, _)
IndexOfFrom(orders, order_id, i) ==
    IF i > Len(orders) THEN 0
    ELSE IF orders[i].order_id = order_id THEN i
    ELSE IndexOfFrom(orders, order_id, i + 1)

IndexOf(orders, order_id) == IndexOfFrom(orders, order_id, 1)

\* save_order with the loop of lines 108-112 left out: always an append
SaveOrder_Append(orders, order) == Append(orders, ToDict(order))

\* JsonStorage.save_order: the file after the call
SaveOrder(orders, order) ==
    LET i == IndexOf(orders, order.order_id) IN
    IF i # 0 THEN [orders EXCEPT ![i] = ToDict(order)]
    ELSE Append(orders, ToDict(order))

\* JsonStorage.get_orders: the orders of the dicts from_dict accepts, in the
\* order of the file
RECURSIVE GetOrders(_)
GetOrders(orders_data) ==
    IF orders_data = <<>> THEN <<>>
    ELSE LET rest == GetOrders(Tail(orders_data))
             keep(got) == IF IsNone(got) THEN rest ELSE <<The(got)>> \o rest
         IN  keep(FromDict(Head(orders_data)))

\* d[key] = value on a Python dict kept as the list of its values in
\* insertion order: an existing key keeps its place
DictPut(values, value) ==
    LET i == IndexOf(values, value.order_id) IN
    IF i # 0 THEN [values EXCEPT ![i] = value] ELSE Append(values, value)

\* {d.get('order_id'): d for d in data}, then list(....values())
RECURSIVE DictFromList(_, _)
DictFromList(values, data) ==
    IF data = <<>> THEN values
    ELSE DictFromList(DictPut(values, Head(data)), Tail(data))

\* the loop of save_orders_batch, lines 205-208
RECURSIVE PutOrders(_, _)
PutOrders(values, batch) ==
    IF batch = <<>> THEN values
    ELSE PutOrders(DictPut(values, ToDict(Head(batch))), Tail(batch))

\* JsonStorage.save_orders_batch: the file after the call
SaveOrdersBatch(orders_data, batch) ==
    IF batch = <<>> THEN orders_data
    ELSE PutOrders(DictFromList(<<>>, orders_data), batch)

\* [order.to_dict() for order in orders]
RECURSIVE ToDicts(_)
ToDicts(list) ==
    IF list = <<>> THEN <<>> ELSE <<ToDict(Head(list))>> \o ToDicts(Tail(list))

\* JsonStorage.delete_order: the file after the call and the value returned
DeleteOrder(orders_data, order_id) ==
    LET delete(loaded) ==
        LET order_index == IndexOf(loaded, order_id) IN
        IF order_index = 0 THEN [store |-> orders_data, returned |-> FALSE]
        ELSE [store |-> ToDicts(SubSeq(loaded, 1, order_index - 1)
                                \o SubSeq(loaded, order_index + 1, Len(loaded))),
              returned |-> TRUE]
    IN  delete(GetOrders(orders_data))

\* what a command that calls storage.save_order(order) leaves: the file
\* after the call and the Order object it handed over
Saved(orders, order, outcome) ==
    [store |-> SaveOrder(orders, order), outcome |-> outcome, wrote |-> TRUE,
     saved |-> order]

\* JsonStorage.get_order: Some(order), or None (not found, or invalid data)
GetOrder(orders, order_id) ==
    LET i == IndexOf(orders, order_id) IN
    IF i = 0 THEN None ELSE FromDict(orders[i])

-----------------------------------------------------------------------------
(* UpdateStatusCommand: src/orderflow/commands/update_status.py *)

VALID_TRANSITIONS ==
    [new |-> <<"preparing", "canceled">>,
     preparing |-> <<"delivered", "canceled">>,
     delivered |-> <<>>,
     canceled |-> <<>>]

InList(x, list) == \E i \in 1..Len(list) : list[i] = x

\* the choices of --status
StatusChoices == {"preparing", "delivered", "canceled"}

\* the append of line 282 written without the note
ApplyStatus_NoNote(order, status, note, timestamp) ==
    [order EXCEPT
       !.status = status,
       !.status_history = Append(@, HistoryEntry(timestamp, status, None))]

\* the append of line 282 written as an assignment of a one-entry list
ApplyStatus_Overwrite(order, status, note, timestamp) ==
    [order EXCEPT
       !.status = status,
       !.status_history = <<HistoryEntry(timestamp, status, note)>>]

\* lines 275-282 without the assignment of line 275: the entry is appended,
\* the status stays
ApplyStatus_HistoryOnly(order, status, note, timestamp) ==
    [order EXCEPT
       !.status_history = Append(@, HistoryEntry(timestamp, status, note))]

\* lines 275-282 (and 230-237): order.status = status and the entry
\* (timestamp, status, note) appended to order.status_history
ApplyStatus(order, status, note, timestamp) ==
    [order EXCEPT
       !.status = status,
       !.status_history = Append(@, HistoryEntry(timestamp, status, note))]

\* _process_single_update with the transition check after the save
ProcessSingleUpdate_SaveFirst(orders, order_id, status, note, timestamp) ==
    LET process(got) ==
        IF IsNone(got)
        THEN [store |-> orders, outcome |-> "not_found", wrote |-> FALSE]
        ELSE LET order == The(got)
                 current_status == order.status
             IN  IF InList(current_status, <<"delivered", "canceled">>)
                 THEN [store |-> orders, outcome |-> "already_final",
                       wrote |-> FALSE]
                 ELSE [store |-> SaveOrder(orders,
                           ApplyStatus(order, status, note, timestamp)),
                       outcome |->
                           IF ~InList(status, VALID_TRANSITIONS[current_status])
                           THEN "invalid_transition" ELSE "updated",
                       wrote |-> TRUE]
    IN  process(GetOrder(orders, order_id))

\* _process_single_update without the check of lines 270-272
ProcessSingleUpdate_AnyTarget(orders, order_id, status, note, timestamp) ==
    LET process(got) ==
        IF IsNone(got)
        THEN [store |-> orders, outcome |-> "not_found", wrote |-> FALSE]
        ELSE IF InList(The(got).status, <<"delivered", "canceled">>)
        THEN [store |-> orders, outcome |-> "already_final", wrote |-> FALSE]
        ELSE Saved(orders, ApplyStatus(The(got), status, note, timestamp),
                   "updated")
    IN  process(GetOrder(orders, order_id))

\* _process_single_update: the file afterwards and the message printed
ProcessSingleUpdate(orders, order_id, status, note, timestamp) ==
    LET process(got) ==
        IF IsNone(got)
        THEN [store |-> orders, outcome |-> "not_found", wrote |-> FALSE]
        ELSE LET order == The(got)
                 current_status == order.status
             IN  IF InList(current_status, <<"delivered", "canceled">>)
                 THEN [store |-> orders, outcome |-> "already_final",
                       wrote |-> FALSE]
                 ELSE IF ~InList(status, VALID_TRANSITIONS[current_status])
                 THEN [store |-> orders, outcome |-> "invalid_transition",
                       wrote |-> FALSE]
                 ELSE Saved(orders, ApplyStatus(order, status, note, timestamp),
                            "updated")
    IN  process(GetOrder(orders, order_id))

\* _process_rollback without the assignment of line 187: the entry is
\* popped, the status stays
ProcessRollback_KeepStatus(orders, order_id) ==
    LET process(got) ==
        IF IsNone(got)
        THEN [store |-> orders, outcome |-> "not_found", wrote |-> FALSE]
        ELSE LET order == The(got)
                 n == Len(order.status_history)
             IN  IF n <= 1
                 THEN [store |-> orders, outcome |-> "no_previous_status",
                       wrote |-> FALSE]
                 ELSE [store |-> SaveOrder(orders,
                           [order EXCEPT !.status_history = SubSeq(@, 1, n - 1)]),
                       outcome |-> "rolled_back", wrote |-> TRUE]
    IN  process(GetOrder(orders, order_id))

\* _process_rollback with the check of line 172 reporting but not returning:
\* a one-entry history falls through to the status reset and the save
ProcessRollback_NoReturn(orders, order_id) ==
    LET process(got) ==
        IF IsNone(got)
        THEN [store |-> orders, outcome |-> "not_found", wrote |-> FALSE]
        ELSE LET order == The(got)
                 n == Len(order.status_history)
                 keep == IF n <= 1 THEN n ELSE n - 1
                 popped == SubSeq(order.status_history, 1, keep)
             IN  [store |-> SaveOrder(orders,
                      [order EXCEPT !.status_history = popped,
                                    !.status = popped[keep].status]),
                  outcome |-> IF n <= 1 THEN "no_previous_status"
                              ELSE "rolled_back",
                  wrote |-> TRUE]
    IN  process(GetOrder(orders, order_id))

\* _process_rollback
ProcessRollback(orders, order_id) ==
    LET process(got) ==
        IF IsNone(got)
        THEN [store |-> orders, outcome |-> "not_found", wrote |-> FALSE]
        ELSE LET order == The(got)
                 n == Len(order.status_history)
             IN  IF n <= 1
                 THEN [store |-> orders, outcome |-> "no_previous_status",
                       wrote |-> FALSE]
                 ELSE LET popped == SubSeq(order.status_history, 1, n - 1)
                          previous_status == popped[n - 1].status
                      IN  Saved(orders,
                                [order EXCEPT !.status_history = popped,
                                              !.status = previous_status],
                                "rolled_back")
    IN  process(GetOrder(orders, order_id))

\* the body of the loop of _process_batch_update, for one order_id: r holds
\* the file, the results dict, the IDs reported as not found and whether
\* the file was written
BatchStep(r, order_id, status, note, timestamp) ==
    LET process(got) ==
        IF IsNone(got) THEN [r EXCEPT !.not_found_printed = Append(@, order_id)]
        ELSE LET order == The(got)
                 current_status == order.status
             IN  IF InList(current_status, <<"delivered", "canceled">>)
                 THEN [r EXCEPT !.already_final = Append(@, order_id)]
                 ELSE IF ~InList(status, VALID_TRANSITIONS[current_status])
                 THEN [r EXCEPT !.invalid_transition = Append(@, order_id)]
                 ELSE [r EXCEPT
                         !.store = SaveOrder(r.store,
                             ApplyStatus(order, status, note, timestamp)),
                         !.wrote = TRUE,
                         !.updated = Append(@, order_id)]
    IN  process(GetOrder(r.store, order_id))

\* the loop with break where lines 211, 222 and 227 say continue
RECURSIVE BatchLoop_Break(_, _, _, _, _)
BatchLoop_Break(r, order_ids, status, note, timestamp) ==
    IF order_ids = <<>> THEN r
    ELSE LET after(next) ==
                 IF next.updated = r.updated THEN next
                 ELSE BatchLoop_Break(next, Tail(order_ids), status, note,
                                      timestamp)
         IN  after(BatchStep(r, Head(order_ids), status, note, timestamp))

RECURSIVE BatchLoop(_, _, _, _, _)
BatchLoop(r, order_ids, status, note, timestamp) ==
    IF order_ids = <<>> THEN r
    ELSE BatchLoop(BatchStep(r, Head(order_ids), status, note, timestamp),
                   Tail(order_ids), status, note, timestamp)

\* _process_batch_update: the file afterwards, the results dict and the
\* three counts of the summary
ProcessBatchUpdate(orders, order_ids, status, note, timestamp) ==
    LET report(r) ==
        [store |-> r.store, wrote |-> r.wrote, outcome |-> "summary",
         results |-> [updated |-> r.updated,
                      invalid_transition |-> r.invalid_transition,
                      already_final |-> r.already_final],
         not_found_printed |-> r.not_found_printed,
         summary |-> [updated |-> Len(r.updated),
                      invalid_transition |-> Len(r.invalid_transition),
                      already_final |-> Len(r.already_final)]]
    IN  report(BatchLoop([store |-> orders, updated |-> <<>>,
                          invalid_transition |-> <<>>, already_final |-> <<>>,
                          not_found_printed |-> <<>>, wrote |-> FALSE],
                         order_ids, status, note, timestamp))

-----------------------------------------------------------------------------
(* AddCommand: src/orderflow/commands/add.py *)

\* AddCommand.execute behind the parser of add_arguments.  tags and notes may
\* be None; fresh is the next UUID and now the time of the call.
ExecuteAdd(orders, args, fresh, now) ==
    IF args.order_total <= 0
    THEN [store |-> orders, outcome |-> "usage_error", wrote |-> FALSE]
    ELSE LET save(made) ==
                 IF IsNone(made)
                 THEN [store |-> orders, outcome |-> "error", wrote |-> FALSE]
                 ELSE Saved(orders, The(made), "added")
         IN  save(OrderInit(
                 [customer_name |-> args.customer_name,
                  dishes |-> DishStr(args.dishes),
                  order_total |-> args.order_total,
                  status |-> args.status,
                  order_id |-> None,
                  order_time |-> None,
                  tags |-> IF IsNone(args.tags) THEN [kind |-> "none"]
                           ELSE DishStr(The(args.tags)),
                  notes |-> args.notes,
                  status_history |-> None,
                  delivery_info |-> None,
                  assignment_history |-> <<>>],
                 fresh, now))

-----------------------------------------------------------------------------
(* UpdateCommand: src/orderflow/commands/update.py.  The class defines no   *)
(* error and no warn method, so a call of self.error or self.warn raises    *)
(* AttributeError and ends the command: outcome "crash".                    *)

\* _parse_dishes_list: Some(list of names), or None where self.error is called
ParseDishesList(dishes_str) ==
    IF Strip(dishes_str) = <<>> THEN None
    ELSE LET dishes == StripNonEmpty(Split(dishes_str, ","))
         IN  IF dishes = <<>> THEN None ELSE Some(dishes)

\* the total the command accepts: args.total >= 0
UpdateTotalAccepted(total) == total >= 0

\* for tag in tags: if tag and tag not in order.tags: order.tags.append(tag)
RECURSIVE AddTags(_, _)
AddTags(tags, add_tag) ==
    IF add_tag = <<>> THEN tags
    ELSE AddTags(IF Head(add_tag) # <<>> /\ ~InList(Head(add_tag), tags)
                 THEN Append(tags, Head(add_tag)) ELSE tags,
                 Tail(add_tag))

\* list.remove(x): the first occurrence removed
RemoveFirst(list, x) ==
    LET i == Find(list, x) IN
    IF i = 0 THEN list
    ELSE SubSeq(list, 1, i - 1) \o SubSeq(list, i + 1, Len(list))

RECURSIVE RemoveTags(_, _)
RemoveTags(tags, remove_tag) ==
    IF remove_tag = <<>> THEN tags
    ELSE RemoveTags(IF Head(remove_tag) # <<>> /\ InList(Head(remove_tag), tags)
                    THEN RemoveFirst(tags, Head(remove_tag)) ELSE tags,
                    Tail(remove_tag))

DishNameSet(items) == {items[i].name : i \in 1..Len(items)}
SeqToSet(list) == {list[i] : i \in 1..Len(list)}

\* _compute_field_differences, for arguments it does not crash on: the set
\* of fields it lists as changed
ComputeFieldDifferences(order, args) ==
    (IF ~IsNone(args.customer_name) /\ The(args.customer_name) # order.customer_name
     THEN {"customer_name"} ELSE {})
    \cup (IF ~IsNone(args.total) /\ The(args.total) # order.order_total
          THEN {"order_total"} ELSE {})
    \cup (IF \E i \in 1..Len(args.add_tag) :
                args.add_tag[i] # <<>> /\ ~InList(args.add_tag[i], order.tags)
          THEN {"add_tags"} ELSE {})
    \cup (IF \E i \in 1..Len(args.remove_tag) :
                args.remove_tag[i] # <<>> /\ InList(args.remove_tag[i], order.tags)
          THEN {"remove_tags"} ELSE {})
    \cup (IF ~IsNone(args.note) /\ The(args.note) # "" THEN {"note"} ELSE {})
    \cup (IF ~IsNone(args.dishes)
             /\ DishNameSet(order.dishes.dicts)
                  # SeqToSet(The(ParseDishesList(The(args.dishes))))
          THEN {"dishes"} ELSE {})

\* _apply_updates, for arguments _compute_field_differences accepted
ApplyUpdates(order, args) ==
    [order EXCEPT
       !.customer_name =
           IF ~IsNone(args.customer_name) /\ Strip(The(args.customer_name)) # <<>>
           THEN The(args.customer_name) ELSE @,
       !.order_total =
           IF ~IsNone(args.total) /\ UpdateTotalAccepted(The(args.total))
           THEN The(args.total) ELSE @,
       !.tags = RemoveTags(AddTags(@, args.add_tag), args.remove_tag),
       !.notes = IF ~IsNone(args.note) THEN The(args.note) ELSE @,
       !.dishes =
           IF ~IsNone(args.dishes) /\ ~IsNone(ParseDishesList(The(args.dishes)))
           THEN NameList(The(ParseDishesList(The(args.dishes)))) ELSE @]

\* UpdateCommand.execute.  args.order_time is None or Some(valid), valid
\* telling whether datetime.fromisoformat accepts the text.
ExecuteUpdate(orders, args) ==
    LET same(o) == [store |-> orders, outcome |-> o, wrote |-> FALSE]
        execute(got) ==
        IF IsNone(args.customer_name) /\ IsNone(args.total)
           /\ args.add_tag = <<>> /\ args.remove_tag = <<>>
           /\ IsNone(args.note) /\ IsNone(args.order_time) /\ IsNone(args.dishes)
        THEN same("crash")
        ELSE IF ~IsNone(args.order_time) /\ ~The(args.order_time)
        THEN same("crash")
        ELSE IF ~IsNone(args.dishes) /\ IsNone(ParseDishesList(The(args.dishes)))
        THEN same("crash")
        ELSE IF IsNone(got) THEN same("not_found")
        ELSE IF ~IsNone(args.customer_name) /\ Strip(The(args.customer_name)) = <<>>
        THEN same("crash")
        ELSE IF ~IsNone(args.total) /\ ~UpdateTotalAccepted(The(args.total))
        THEN same("crash")
        ELSE IF ~IsNone(args.order_time)
        THEN same("crash")
        ELSE LET changes == ComputeFieldDifferences(The(got), args) IN
             IF args.dry_run THEN same("dry_run")
             ELSE IF changes = {} THEN same("no_changes")
             ELSE Saved(orders, ApplyUpdates(The(got), args), "updated")
    IN  execute(GetOrder(orders, args.id))

-----------------------------------------------------------------------------
(* AssignCommand: src/orderflow/commands/assign.py *)

VALID_PARTNERS == <<"Ravi", "Meena", "Ali", "Kavita">>

\* _validate_eta_format on the ETA texts of the model: "30m" and "1h30m"
\* match the relative pattern, "2025-07-10T15:30:00" parses as ISO 8601,
\* "soon" does neither
ValidateEtaFormat(eta) == eta \in {"30m", "1h30m", "2025-07-10T15:30:00"}

\* _record_history_entry writing every entry as an assignment
AssignmentEntry_AlwaysAssign(action, partner_name, eta, timestamp) ==
    [action |-> "assign", timestamp |-> timestamp,
     partner_name |-> partner_name, eta |-> eta]

\* _record_history_entry without dry_run: the entry appended
AssignmentEntry(action, partner_name, eta, timestamp) ==
    IF action \in {"assign", "reassign"}
    THEN [action |-> action, timestamp |-> timestamp,
          partner_name |-> partner_name, eta |-> eta]
    ELSE IF action = "unassign" /\ partner_name # ""
    THEN [action |-> action, timestamp |-> timestamp,
          removed_partner |-> partner_name]
    ELSE [action |-> action, timestamp |-> timestamp]

\* AssignCommand.execute behind the parser of add_arguments: exactly one of
\* partner_name (Some) and unassign is given; eta may be None.
ExecuteAssign(orders, args, timestamp) ==
    LET same(o) == [store |-> orders, outcome |-> o, wrote |-> FALSE]
        execute(got) ==
        LET order == The(got) IN
        IF IsNone(got) THEN same("not_found")
        ELSE IF args.unassign
        THEN IF IsNone(order.delivery_info) THEN same("not_assigned")
             ELSE IF args.dry_run THEN same("dry_run")
             ELSE Saved(orders,
                        [order EXCEPT
                           !.delivery_info = None,
                           !.assignment_history = Append(@,
                               AssignmentEntry("unassign",
                                   The(order.delivery_info).partner_name,
                                   "", timestamp))],
                        "unassigned")
        ELSE IF IsNone(args.eta) \/ The(args.eta) = "" THEN same("eta_required")
        ELSE IF ~ValidateEtaFormat(The(args.eta)) THEN same("invalid_eta")
        ELSE IF ~InList(The(args.partner_name), VALID_PARTNERS)
        THEN same("unknown_partner")
        ELSE IF ~IsNone(order.delivery_info) /\ ~args.reassign
        THEN same("already_assigned")
        ELSE IF args.dry_run THEN same("dry_run")
        ELSE Saved(orders,
                   [order EXCEPT
                      !.delivery_info =
                          Some([partner_name |-> The(args.partner_name),
                                eta |-> The(args.eta)]),
                      !.assignment_history = Append(@,
                          AssignmentEntry(
                              IF IsNone(order.delivery_info) THEN "assign"
                              ELSE "reassign",
                              The(args.partner_name), The(args.eta), timestamp))],
                   IF IsNone(order.delivery_info) THEN "assigned"
                   ELSE "reassigned")
    IN  execute(GetOrder(orders, args.id))

-----------------------------------------------------------------------------
(* DeleteCommand: src/orderflow/commands/delete.py *)

\* the parameters of DeleteCommand.execute after self (line 192), and the
\* arguments main passes to args.func (main.py line 22)
DeleteExecuteParameters == <<"args", "storage">>
MainCallArguments == <<"args">>

\* the body of DeleteCommand.execute for --order-id without --tag,
\* --customer-name and --order-time; confirmation is the line input() reads
\* when --force is not given
ExecuteDelete(orders, args, confirmation) ==
    LET same(o) == [store |-> orders, outcome |-> o, wrote |-> FALSE]
        execute(order) ==
        IF IsNone(order) THEN same("not_found")
        ELSE IF ~args.force /\ confirmation \notin {"y", "yes"}
        THEN same("cancelled")
        ELSE IF args.dry_run THEN same("dry_run")
        ELSE LET report(r) ==
                     [store |-> r.store, wrote |-> r.returned,
                      outcome |-> IF r.returned THEN "deleted" ELSE "failed"]
             IN  report(DeleteOrder(orders, The(order).order_id))
    IN  execute(GetOrder(orders, args.order_id))

\* args.func(args) of main for the delete subcommand: Python raises TypeError
\* before the body runs when the call does not fill the parameters
RunDelete(orders, args, confirmation) ==
    IF Len(MainCallArguments) # Len(DeleteExecuteParameters)
    THEN [store |-> orders, outcome |-> "crash", wrote |-> FALSE]
    ELSE ExecuteDelete(orders, args, confirmation)

-----------------------------------------------------------------------------
(* ViewCommand: src/orderflow/commands/view.py.  order_time counts half      *)
(* days; a date is a day number.                                             *)

UpperCase ==
    <<"A", "B", "C", "D", "E", "F", "G", "H", "I", "J", "K", "L", "M",
      "N", "O", "P", "Q", "R", "S", "T", "U", "V", "W", "X", "Y", "Z">>
LowerCase ==
    <<"a", "b", "c", "d", "e", "f", "g", "h", "i", "j", "k", "l", "m",
      "n", "o", "p", "q", "r", "s", "t", "u", "v", "w", "x", "y", "z">>

\* str.lower() leaving capitals as they are
Lower_Identity(text) == text

\* str.lower()
LowerChar(c) ==
    IF \E i \in 1..Len(UpperCase) : UpperCase[i] = c
    THEN LowerCase[CHOOSE i \in 1..Len(UpperCase) : UpperCase[i] = c]
    ELSE c
Lower(text) == [i \in 1..Len(text) |-> LowerChar(text[i])]

\* needle in hay, for two strings
Contains(needle, hay) ==
    \E i \in 0..(Len(hay) - Len(needle)) :
        SubSeq(hay, i + 1, i + Len(needle)) = needle

\* bool(x) of an optional string argument: given and not empty
Truthy(text) == ~IsNone(text) /\ The(text) # <<>>

\* not order.notes.strip(), on the notes of the model
NotesBlank(notes) == notes \in {"", " "}

\* datetime.fromisoformat(order.order_time).date(); the constructor has
\* normalised order_time, so the parse succeeds
DateOf(order_time) == (order_time + 1) \div 2

\* Order.has_dish
HasDish(order, dish_name) ==
    \E i \in 1..Len(order.dishes.dicts) :
        Contains(Lower(dish_name), Lower(order.dishes.dicts[i].name))

\* the names an Order object answers to: the attributes __init__ sets and
\* the methods of the class
OrderAttributes ==
    {"customer_name", "delivery_info", "assignment_history", "dishes",
     "order_total", "status", "order_id", "order_time", "tags", "notes",
     "status_history", "VALID_STATUSES", "_parse_dishes", "get_dish_names",
     "get_formatted_dishes", "has_dish", "get_total_quantity",
     "calculate_dish_revenue", "to_dict", "from_dict", "are_dishes_equal"}

\* the date filters of _apply_filters, lines 308-331.  A date argument is
\* None, [day |-> d] or [bad |-> TRUE] (a text strptime rejects).
ParseDateFilters(args, today) ==
    IF args.today THEN [ok |-> TRUE, from_date |-> Some(today), to_date |-> Some(today)]
    ELSE IF ~IsNone(args.from_date) /\ "bad" \in DOMAIN The(args.from_date)
    THEN [ok |-> FALSE]
    ELSE IF ~IsNone(args.to_date) /\ "bad" \in DOMAIN The(args.to_date)
    THEN [ok |-> FALSE]
    ELSE [ok |-> TRUE,
          from_date |-> IF IsNone(args.from_date) THEN None
                        ELSE Some(The(args.from_date).day),
          to_date |-> IF IsNone(args.to_date) THEN None
                      ELSE Some(The(args.to_date).day)]

\* the body of the loop of _apply_filters, lines 333-399, for one order:
\* "skip" (continue), "keep" (append) or "raise" (AttributeError at line 370)
FilterOrder(order, args, from_date, to_date) ==
    IF ~IsNone(args.status) /\ order.status # The(args.status) THEN "skip"
    ELSE IF args.active_only /\ order.status = "canceled" THEN "skip"
    ELSE IF Truthy(args.dish) /\ ~HasDish(order, The(args.dish)) THEN "skip"
    ELSE IF ~IsNone(from_date) /\ DateOf(order.order_time) < The(from_date)
    THEN "skip"
    ELSE IF ~IsNone(to_date) /\ DateOf(order.order_time) > The(to_date)
    THEN "skip"
    ELSE IF Truthy(args.dish) /\ "dish_names" \notin OrderAttributes THEN "raise"
    ELSE IF Truthy(args.dish) /\ ~HasDish(order, The(args.dish)) THEN "skip"
    ELSE IF Truthy(args.customer)
            /\ ~Contains(Lower(The(args.customer)), Lower(order.customer_name))
    THEN "skip"
    ELSE IF Truthy(args.tag)
            /\ ~\E i \in 1..Len(order.tags) :
                   Contains(Lower(The(args.tag)), Lower(order.tags[i]))
    THEN "skip"
    ELSE IF args.with_notes /\ NotesBlank(order.notes) THEN "skip"
    ELSE IF args.without_notes /\ ~NotesBlank(order.notes) THEN "skip"
    ELSE "keep"

RECURSIVE FilterLoop(_, _, _, _, _)
FilterLoop(orders, args, from_date, to_date, filtered_orders) ==
    IF orders = <<>> THEN [raised |-> FALSE, orders |-> filtered_orders]
    ELSE LET step(verdict) ==
                 IF verdict = "raise" THEN [raised |-> TRUE, orders |-> <<>>]
                 ELSE FilterLoop(Tail(orders), args, from_date, to_date,
                                 IF verdict = "keep"
                                 THEN Append(filtered_orders, Head(orders))
                                 ELSE filtered_orders)
         IN  step(FilterOrder(Head(orders), args, from_date, to_date))

\* ViewCommand._apply_filters: the list returned, or raised when the call
\* ends in an exception; today is date.today()
ApplyFilters(orders, args, today) ==
    LET filter(dates) ==
        IF ~dates.ok THEN [raised |-> FALSE, orders |-> <<>>]
        ELSE FilterLoop(orders, args, dates.from_date, dates.to_date, <<>>)
    IN  filter(ParseDateFilters(args, today))

\* list.sort(key=..., reverse=...) and sorted(): a stable sort.  pairs holds
\* [key, val] records; Place puts one record behind those that stay before it
RECURSIVE Place(_, _, _)
Place(sorted, pair, reverse) ==
    IF sorted = <<>> THEN <<pair>>
    ELSE IF (IF reverse THEN Head(sorted).key < pair.key
             ELSE Head(sorted).key > pair.key)
    THEN <<pair>> \o sorted
    ELSE <<Head(sorted)>> \o Place(Tail(sorted), pair, reverse)

RECURSIVE SortFrom(_, _, _)
SortFrom(sorted, pairs, reverse) ==
    IF pairs = <<>> THEN sorted
    ELSE SortFrom(Place(sorted, Head(pairs), reverse), Tail(pairs), reverse)

StableSort(pairs, reverse) ==
    LET vals(sorted) == [i \in 1..Len(sorted) |-> sorted[i].val]
    IN  vals(SortFrom(<<>>, pairs, reverse))

\* filtered_orders.sort(...) of lines 213-218 (and export.py 153-157)
SortOrders(orders, sort_by, reverse) ==
    StableSort([i \in 1..Len(orders) |->
                   [key |-> IF sort_by = "order_total" THEN orders[i].order_total
                            ELSE orders[i].order_time,
                    val |-> orders[i]]],
               reverse)

\* Python floats, kept as exact fractions in lowest terms (rounding and the
\* two-decimal formatting of the tables are not followed)
RECURSIVE GCD(_, _)
GCD(a, b) == IF b = 0 THEN a ELSE GCD(b, a % b)
Rat(n, d) == [num |-> n \div GCD(n, d), den |-> d \div GCD(n, d)]
RatAdd(x, y) == Rat(x.num * y.den + y.num * x.den, x.den * y.den)
RatTimes(x, k) == Rat(x.num * k, x.den)
RatOver(x, k) == Rat(x.num, x.den * k)

\* Order.get_total_quantity
RECURSIVE SumQuantities(_)
SumQuantities(dishes) ==
    IF dishes = <<>> THEN 0
    ELSE Head(dishes).quantity.int + SumQuantities(Tail(dishes))

GetTotalQuantity(order) == SumQuantities(order.dishes.dicts)

\* Order.calculate_dish_revenue()[name]: the dict comprehension keeps the
\* value of the last dish with the name
CalculateDishRevenue(order, name) ==
    LET dishes == order.dishes.dicts
        last_index == CHOOSE i \in 1..Len(dishes) :
                         /\ dishes[i].name = name
                         /\ \A j \in (i + 1)..Len(dishes) : dishes[j].name # name
    IN  RatTimes(Rat(order.order_total, GetTotalQuantity(order)),
                 dishes[last_index].quantity.int)

\* the dict comprehension of calculate_dish_revenue from dish i on: a dict
\* is the list of its entries in insertion order, and a key met again keeps
\* its place and takes the new value
RECURSIVE RevenueComprehension(_, _, _, _)
RevenueComprehension(entries, dishes, per_unit_revenue, i) ==
    IF i > Len(dishes) THEN entries
    ELSE LET value == RatTimes(per_unit_revenue, dishes[i].quantity.int)
             at == {k \in 1..Len(entries) : entries[k].name = dishes[i].name}
         IN  RevenueComprehension(
                 IF at = {} THEN Append(entries, [name |-> dishes[i].name,
                                                  revenue |-> value])
                 ELSE [k \in 1..Len(entries) |->
                          IF k \in at THEN [entries[k] EXCEPT !.revenue = value]
                          ELSE entries[k]],
                 dishes, per_unit_revenue, i + 1)

\* Order.calculate_dish_revenue: the whole dict
CalculateDishRevenueDict(order) ==
    IF GetTotalQuantity(order) = 0 THEN <<>>
    ELSE RevenueComprehension(<<>>, order.dishes.dicts,
                              Rat(order.order_total, GetTotalQuantity(order)), 1)

\* what the loops of _display_top_dishes (lines 565-577) add for dish i of
\* an order
TopDishesShare(order, i) ==
    [name |-> order.dishes.dicts[i].name,
     quantity |-> order.dishes.dicts[i].quantity.int,
     revenue |-> CalculateDishRevenue(order, order.dishes.dicts[i].name)]

\* the expression of lines 717 and 1031: ":" in d looks among the keys of
\* the dict d, so every dish counts 1
TotalQtyInOrder(order) == Len(order.dishes.dicts)

\* what the loops of _display_dish_breakdown (lines 706-727) and of
\* _display_avg_dish_value (lines 1018-1038) add for dish i of an order
BreakdownShare(order, i) ==
    [name |-> order.dishes.dicts[i].name,
     quantity |-> order.dishes.dicts[i].quantity.int,
     revenue |-> RatTimes(Rat(order.dishes.dicts[i].quantity.int,
                              TotalQtyInOrder(order)),
                          order.order_total)]

\* a dict of the reports, as the list of its entries in insertion order,
\* after one more share
AddShare(dish_data, share) ==
    LET i == CHOOSE k \in 0..Len(dish_data) :
                 IF \E j \in 1..Len(dish_data) : dish_data[j].name = share.name
                 THEN k # 0 /\ dish_data[k].name = share.name
                 ELSE k = 0
    IN  IF i = 0 THEN Append(dish_data, share)
        ELSE [dish_data EXCEPT
                ![i] = [name |-> share.name,
                        quantity |-> @.quantity + share.quantity,
                        revenue |-> RatAdd(@.revenue, share.revenue)]]

\* the rows of a report: the average per unit is revenue / quantity
ReportRows(dish_data) ==
    [i \in 1..Len(dish_data) |->
        [name |-> dish_data[i].name,
         quantity |-> dish_data[i].quantity,
         revenue |-> dish_data[i].revenue,
         avg |-> IF dish_data[i].quantity > 0
                 THEN RatOver(dish_data[i].revenue, dish_data[i].quantity)
                 ELSE Rat(0, 1)]]

\* the loops of _display_top_dishes over the orders from order k, dish i on
RECURSIVE TopDishesLoop(_, _, _, _)
TopDishesLoop(dish_data, orders, k, i) ==
    IF k > Len(orders) THEN dish_data
    ELSE IF i > Len(orders[k].dishes.dicts)
    THEN TopDishesLoop(dish_data, orders, k + 1, 1)
    ELSE TopDishesLoop(AddShare(dish_data, TopDishesShare(orders[k], i)),
                       orders, k, i + 1)

\* _display_top_dishes: the rows of the table, the five dishes with the
\* largest quantities (the order of the rows after line 612 is not followed)
DisplayTopDishes(all_orders, filtered_orders) ==
    LET top(dish_data) ==
            StableSort([i \in 1..Len(dish_data) |->
                           [key |-> dish_data[i].quantity, val |-> dish_data[i]]],
                       TRUE)
        cut(top_dishes) ==
            ReportRows(SubSeq(top_dishes, 1,
                              IF Len(top_dishes) < 5 THEN Len(top_dishes) ELSE 5))
    IN  cut(top(TopDishesLoop(<<>>,
                              IF filtered_orders # <<>> THEN filtered_orders
                              ELSE all_orders,
                              1, 1)))

\* the first pass of _display_dish_breakdown and of _display_avg_dish_value
RECURSIVE BreakdownLoop(_, _, _, _)
BreakdownLoop(dish_data, orders, k, i) ==
    IF k > Len(orders) THEN dish_data
    ELSE IF i > Len(orders[k].dishes.dicts)
    THEN BreakdownLoop(dish_data, orders, k + 1, 1)
    ELSE BreakdownLoop(IF orders[k].dishes.dicts[i].name = <<>> THEN dish_data
                       ELSE AddShare(dish_data, BreakdownShare(orders[k], i)),
                       orders, k, i + 1)

\* _display_dish_breakdown: the rows of the table (their order is not
\* followed, nor the percentage column)
DisplayDishBreakdown(orders) == ReportRows(BreakdownLoop(<<>>, orders, 1, 1))

\* _display_avg_dish_value: the rows of the table (their order is not
\* followed)
DisplayAvgDishValue(orders) == ReportRows(BreakdownLoop(<<>>, orders, 1, 1))

\* f"{n}" of a natural number
RECURSIVE DigitsOf(_)
DigitsOf(n) ==
    LET digit == <<"0", "1", "2", "3", "4", "5", "6", "7", "8", "9">>
    IN  IF n < 10 THEN <<digit[n + 1]>>
        ELSE Append(DigitsOf(n \div 10), digit[(n % 10) + 1])

\* round(x * scale), halves to the even neighbour (the binary error of the
\* float is not followed)
RoundScaled(x, scale) ==
    LET n == x.num * scale
        q == n \div x.den
        r == n % x.den
    IN  IF 2 * r < x.den THEN q
        ELSE IF 2 * r > x.den THEN q + 1
        ELSE IF q % 2 = 0 THEN q ELSE q + 1

\* f"{x:.2f}"
FormatFixed2(x) ==
    LET cents == RoundScaled(x, 100)
    IN  DigitsOf(cents \div 100) \o <<".">>
          \o DigitsOf((cents % 100) \div 10) \o DigitsOf(cents % 10)

\* f"${x:.2f}"
FormatMoney(x) == <<"$">> \o FormatFixed2(x)

\* ord(c) of the characters of the formatted cells
Ord(c) ==
    CASE c = "$" -> 36
      [] c = "%" -> 37
      [] c = "." -> 46
      [] OTHER -> 48 + DigitVal(c)

\* a < b of two str
RECURSIVE StrLess(_, _)
StrLess(a, b) ==
    IF b = <<>> THEN FALSE
    ELSE IF a = <<>> THEN TRUE
    ELSE IF Head(a) # Head(b) THEN Ord(Head(a)) < Ord(Head(b))
    ELSE StrLess(Tail(a), Tail(b))

\* x[idx] < y[idx] of two rows <<name, int, text, text>> of a report table
\* (idx counts from 0 as in the code)
CellLess(x, y, idx) ==
    IF idx = 1 THEN x[2] < y[2] ELSE StrLess(x[idx + 1], y[idx + 1])

\* table.sort(key=lambda x: x[idx], reverse=True): a row is put before the
\* first row whose cell is smaller
RECURSIVE PlaceRow(_, _, _)
PlaceRow(sorted, row, idx) ==
    IF sorted = <<>> THEN <<row>>
    ELSE IF CellLess(Head(sorted), row, idx) THEN <<row>> \o sorted
    ELSE <<Head(sorted)>> \o PlaceRow(Tail(sorted), row, idx)

RECURSIVE SortRowsFrom(_, _, _)
SortRowsFrom(sorted, rows, idx) ==
    IF rows = <<>> THEN sorted
    ELSE SortRowsFrom(PlaceRow(sorted, Head(rows), idx), Tail(rows), idx)

SortRows(rows, idx) == SortRowsFrom(<<>>, rows, idx)

\* valid_sorts.index(sort_by) + 1 after the fallback to the default
\* (lines 603-613, 626-635 and 670)
ReportColumn(valid_sorts, default_sort, sort_by) ==
    LET chosen == IF IsNone(sort_by) THEN default_sort
                  ELSE IF ~InList(The(sort_by), valid_sorts) THEN default_sort
                  ELSE The(sort_by)
    IN  (CHOOSE i \in 0..(Len(valid_sorts) - 1) : valid_sorts[i + 1] = chosen) + 1

\* _display_top_dishes with its sort_by argument: the rows
\* [name, quantity, revenue, average per unit] of the table printed
TopDishesTable(all_orders, filtered_orders, sort_by) ==
    LET row(r) == <<r.name, r.quantity, FormatMoney(r.revenue),
                    IF r.quantity > 0 THEN FormatMoney(r.avg)
                    ELSE <<"$", "0", ".", "0", "0">>>>
        table(rows) == [i \in 1..Len(rows) |-> row(rows[i])]
    IN  SortRows(table(DisplayTopDishes(all_orders, filtered_orders)),
                 ReportColumn(<<"quantity", "revenue">>, "quantity", sort_by))

\* the dict customer_orders of _display_top_customers (lines 638-642), as
\* the list of its entries in insertion order
RECURSIVE CustomerOrders(_, _)
CustomerOrders(entries, orders) ==
    IF orders = <<>> THEN entries
    ELSE LET order == Head(orders)
             at == {k \in 1..Len(entries) : entries[k].name = order.customer_name}
         IN  CustomerOrders(
                 IF at = {} THEN Append(entries, [name |-> order.customer_name,
                                                  orders |-> <<order>>])
                 ELSE [k \in 1..Len(entries) |->
                          IF k \in at
                          THEN [entries[k] EXCEPT !.orders = Append(@, order)]
                          ELSE entries[k]],
                 Tail(orders))

\* sum(order.order_total for order in orders)
RECURSIVE SumTotals(_)
SumTotals(orders) ==
    IF orders = <<>> THEN 0 ELSE Head(orders).order_total + SumTotals(Tail(orders))

\* _display_top_customers: the rows [name, order count, total spent,
\* average order] of the table printed
TopCustomersTable(all_orders, filtered_orders, sort_by) ==
    LET top(entries) ==
            StableSort([i \in 1..Len(entries) |->
                           [key |-> Len(entries[i].orders), val |-> entries[i]]],
                       TRUE)
        cut(sorted_customers) ==
            SubSeq(sorted_customers, 1,
                   IF Len(sorted_customers) < 5 THEN Len(sorted_customers) ELSE 5)
        row(e) == <<e.name, Len(e.orders),
                    FormatMoney(Rat(SumTotals(e.orders), 1)),
                    FormatMoney(Rat(SumTotals(e.orders), Len(e.orders)))>>
        table(entries) == [i \in 1..Len(entries) |-> row(entries[i])]
    IN  SortRows(table(cut(top(CustomerOrders(
                     <<>>, IF filtered_orders # <<>> THEN filtered_orders
                           ELSE all_orders)))),
                 ReportColumn(<<"count", "total", "avg">>, "count", sort_by))

\* f"{x:.1f}"
FormatFixed1(x) ==
    LET tenths == RoundScaled(x, 10)
    IN  DigitsOf(tenths \div 10) \o <<".">> \o DigitsOf(tenths % 10)

\* the dict tag_stats of _display_tag_revenue_breakdown (lines 518-524)
\* after the tags of one order from tag i on: the key is the tag as stored
RECURSIVE TagStatsOfOrder(_, _, _)
TagStatsOfOrder(tag_stats, order, i) ==
    IF i > Len(order.tags) THEN tag_stats
    ELSE LET tag == order.tags[i]
             at == {k \in 1..Len(tag_stats) : tag_stats[k].tag = tag}
         IN  TagStatsOfOrder(
                 IF at = {}
                 THEN Append(tag_stats, [tag |-> tag, count |-> 1,
                                         revenue |-> order.order_total])
                 ELSE [k \in 1..Len(tag_stats) |->
                          IF k \in at
                          THEN [tag_stats[k] EXCEPT
                                  !.count = @ + 1,
                                  !.revenue = @ + order.order_total]
                          ELSE tag_stats[k]],
                 order, i + 1)

RECURSIVE TagStats(_, _)
TagStats(tag_stats, orders) ==
    IF orders = <<>> THEN tag_stats
    ELSE TagStats(TagStatsOfOrder(tag_stats, Head(orders), 1), Tail(orders))

\* tag_revenue_total of line 524
RECURSIVE TagRevenueTotal(_)
TagRevenueTotal(orders) ==
    IF orders = <<>> THEN 0
    ELSE Len(Head(orders).tags) * Head(orders).order_total
         + TagRevenueTotal(Tail(orders))

\* _display_tag_revenue_breakdown: the rows [tag, orders, revenue, share]
\* of the table printed, empty when nothing is printed
DisplayTagRevenueBreakdown(orders) ==
    LET total == TagRevenueTotal(orders)
        row(s) == <<s.tag, s.count, FormatMoney(Rat(s.revenue, 1)),
                    FormatFixed1(Rat(s.revenue * 100, total)) \o <<"%">>>>
        table(sorted) == [i \in 1..Len(sorted) |-> row(sorted[i])]
        by_revenue(tag_stats) ==
            StableSort([i \in 1..Len(tag_stats) |->
                           [key |-> tag_stats[i].revenue, val |-> tag_stats[i]]],
                       TRUE)
    IN  table(by_revenue(TagStats(<<>>, orders)))

\* the dict tag_data of _display_top_tags (lines 797-826) after the tags of
\* one order from tag i on: the key is the tag in lower case
RECURSIVE TagDataOfOrder(_, _, _)
TagDataOfOrder(tag_data, order, i) ==
    IF i > Len(order.tags) THEN tag_data
    ELSE LET tag == order.tags[i]
             normalized_tag == Strip(Lower(tag))
             at == {k \in 1..Len(tag_data) : tag_data[k].key = normalized_tag}
         IN  TagDataOfOrder(
                 IF normalized_tag = <<>> THEN tag_data
                 ELSE IF at = {}
                 THEN Append(tag_data, [key |-> normalized_tag, order_count |-> 1,
                                        revenue |-> order.order_total,
                                        display_name |-> tag])
                 ELSE [k \in 1..Len(tag_data) |->
                          IF k \in at
                          THEN [tag_data[k] EXCEPT
                                  !.order_count = @ + 1,
                                  !.revenue = @ + order.order_total,
                                  !.display_name =
                                      IF Len(tag) > Len(@) THEN tag ELSE @]
                          ELSE tag_data[k]],
                 order, i + 1)

RECURSIVE TagData(_, _)
TagData(tag_data, orders) ==
    IF orders = <<>> THEN tag_data
    ELSE TagData(TagDataOfOrder(tag_data, Head(orders), 1), Tail(orders))

\* total_revenue of line 795: the totals of the orders that have tags
RECURSIVE TaggedRevenue(_)
TaggedRevenue(orders) ==
    IF orders = <<>> THEN 0
    ELSE (IF Head(orders).tags # <<>> THEN Head(orders).order_total ELSE 0)
         + TaggedRevenue(Tail(orders))

\* _display_top_tags: the rows [tag, order count, revenue, share] of the
\* table printed, empty when no table is printed
DisplayTopTags(orders, sort_by) ==
    LET total_revenue == TaggedRevenue(orders)
        row(d) == <<d.display_name, d.order_count, FormatMoney(Rat(d.revenue, 1)),
                    (IF total_revenue > 0
                     THEN FormatFixed2(Rat(d.revenue * 100, total_revenue))
                     ELSE <<"0", ".", "0", "0">>) \o <<"%">>>>
        table(sorted) == [i \in 1..Len(sorted) |-> row(sorted[i])]
        by_revenue(tag_data) ==
            StableSort([i \in 1..Len(tag_data) |->
                           [key |-> tag_data[i].revenue, val |-> tag_data[i]]],
                       TRUE)
    IN  SortRows(table(by_revenue(TagData(<<>>, orders))),
                 ReportColumn(<<"revenue", "count">>, "revenue", sort_by))

\* the number of pages rounded down
TotalPages_Floor(count, page_size) == count \div page_size

\* math.ceil(len(filtered_orders) / args.page_size), line 269
TotalPages(count, page_size) == (count + page_size - 1) \div page_size

\* the slice starting at page * page_size
PageSlice_NextPage(filtered_orders, page, page_size) ==
    SubSeq(filtered_orders, page * page_size + 1,
           IF (page + 1) * page_size < Len(filtered_orders)
           THEN (page + 1) * page_size ELSE Len(filtered_orders))

\* filtered_orders[start_idx:end_idx] of lines 270-279
PageSlice(filtered_orders, page, page_size) ==
    LET start_idx == (page - 1) * page_size
        end_idx == start_idx + page_size
    IN  SubSeq(filtered_orders, start_idx + 1,
               IF end_idx < Len(filtered_orders) THEN end_idx
               ELSE Len(filtered_orders))

\* ViewCommand.execute without --top-customers, --top-tags,
\* --customer-summary, --day-summary, --hourly-distribution and
\* --cancel-rate.  all_orders is what storage.get_orders() returns.
\* returned is the value of the call, table the orders of the table printed.
ExecuteView(all_orders, args, today) ==
    LET done(o) == [outcome |-> o, returned |-> <<>>, table |-> <<>>,
                    total_pages |-> None, top_dishes |-> None,
                    dish_breakdown |-> None, avg_dish_value |-> None]
        show(filtered_orders) ==
            LET summary_only == args.top_dishes /\ filtered_orders = <<>>
                reports ==
                    [done("reports") EXCEPT
                       !.top_dishes =
                           IF args.top_dishes
                           THEN Some(DisplayTopDishes(all_orders, filtered_orders))
                           ELSE None,
                       !.dish_breakdown =
                           IF args.dish_breakdown /\ ~summary_only
                           THEN Some(DisplayDishBreakdown(filtered_orders))
                           ELSE None,
                       !.avg_dish_value =
                           IF args.avg_dish_value /\ ~summary_only
                           THEN Some(DisplayAvgDishValue(filtered_orders))
                           ELSE None]
                total_pages == TotalPages(Len(filtered_orders), args.page_size)
            IN  IF summary_only THEN [reports EXCEPT !.outcome = "summary_only"]
                ELSE IF filtered_orders = <<>>
                THEN [reports EXCEPT !.outcome = "no_match"]
                ELSE IF args.page_size > 0 /\ args.page > total_pages
                THEN [reports EXCEPT !.outcome = "page_error",
                                     !.total_pages = Some(total_pages)]
                ELSE [reports EXCEPT
                        !.outcome = "shown",
                        !.returned = filtered_orders,
                        !.total_pages = IF args.page_size > 0
                                        THEN Some(total_pages) ELSE None,
                        !.table =
                            IF args.page_size > 0
                            THEN PageSlice(filtered_orders, args.page,
                                           args.page_size)
                            ELSE filtered_orders]
        sort(filtered) ==
            IF filtered.raised THEN done("unexpected_error")
            ELSE show(SortOrders(filtered.orders, args.sort_by, args.reverse))
    IN  IF args.with_notes /\ args.without_notes THEN done("usage_error")
        ELSE IF args.page < 1 THEN done("usage_error")
        ELSE IF args.page_size < 0 THEN done("usage_error")
        ELSE IF all_orders = <<>> THEN done("no_orders")
        ELSE sort(ApplyFilters(all_orders, args, today))

\* ExportCommand.execute, the output file not existing: returned is the
\* value of the call (empty for None), written the orders of the file
ExecuteExport(all_orders, args, today) ==
    LET done(o) == [outcome |-> o, returned |-> <<>>, written |-> <<>>]
        export(filtered) ==
            IF filtered.raised THEN done("error")
            ELSE IF filtered.orders = <<>> THEN done("no_match")
            ELSE [outcome |-> "exported",
                  returned |-> SortOrders(filtered.orders, args.sort_by,
                                          args.reverse),
                  written |-> SortOrders(filtered.orders, args.sort_by,
                                         args.reverse)]
    IN  IF all_orders = <<>> THEN done("no_orders")
        ELSE export(ApplyFilters(all_orders, args, today))

-----------------------------------------------------------------------------
(* CheckDuplicatesCommand: src/orderflow/commands/check_duplicates.py *)

\* _normalize_dishes: the dict name -> quantity, as the list of its entries
\* in insertion order
RECURSIVE NormalizeDishes(_, _)
NormalizeDishes(result, dishes) ==
    IF dishes = <<>> THEN result
    ELSE LET name == Strip(Lower(Head(dishes).name))
             qty == Head(dishes).quantity.int
             at == {k \in 1..Len(result) : result[k].name = name}
         IN  NormalizeDishes(
                 IF at = {} THEN Append(result, [name |-> name, qty |-> qty])
                 ELSE [k \in 1..Len(result) |->
                          IF k \in at THEN [result[k] EXCEPT !.qty = @ + qty]
                          ELSE result[k]],
                 Tail(dishes))

\* _compare_dishes with the quantities compared also without exact_match
CompareDishes_AlwaysExact(order1, order2, exact_match) ==
    LET entries(d) == {d[k] : k \in 1..Len(d)}
    IN  entries(NormalizeDishes(<<>>, order1.dishes.dicts))
          = entries(NormalizeDishes(<<>>, order2.dishes.dicts))

\* _compare_dishes
CompareDishes(order1, order2, exact_match) ==
    LET dishes1 == NormalizeDishes(<<>>, order1.dishes.dicts)
        dishes2 == NormalizeDishes(<<>>, order2.dishes.dicts)
        keys(d) == {d[k].name : k \in 1..Len(d)}
    IN  IF exact_match
        THEN /\ Len(dishes1) = Len(dishes2)
             /\ \A k \in 1..Len(dishes1) :
                   \E m \in 1..Len(dishes2) :
                      /\ dishes2[m].name = dishes1[k].name
                      /\ dishes2[m].qty = dishes1[k].qty
        ELSE keys(dishes1) = keys(dishes2)

\* (next_dt - current_dt).total_seconds(): in the specifications of this
\* command a tick of the clock is half a minute
TotalSeconds(current_time, next_time) == (next_time - current_time) * 30

\* lines 167-183: whether next_order joins the group of current_order
IsDuplicate(current_order, next_order, args) ==
    LET dishes_match == CompareDishes(current_order, next_order,
                                      args.exact_match_only)
        total_match == args.ignore_total
                       \/ current_order.order_total = next_order.order_total
        status_match == args.ignore_status
                        \/ current_order.status = next_order.status
    IN  IF args.exact_match_only
        THEN dishes_match /\ total_match /\ status_match
        ELSE dishes_match

\* the inner loop (lines 157-187): the group of cust_orders[i] from j on
RECURSIVE GroupFrom(_, _, _, _, _)
GroupFrom(group, cust_orders, i, j, args) ==
    IF j > Len(cust_orders) THEN group
    ELSE IF TotalSeconds(cust_orders[i].order_time, cust_orders[j].order_time)
              > args.time_window * 60
    THEN group
    ELSE GroupFrom(IF IsDuplicate(cust_orders[i], cust_orders[j], args)
                   THEN Append(group, cust_orders[j]) ELSE group,
                   cust_orders, i, j + 1, args)

\* the outer loop (lines 147-195) over one customer's sorted orders
RECURSIVE GroupsOfCustomer(_, _, _, _)
GroupsOfCustomer(duplicate_groups, cust_orders, i, args) ==
    IF i > Len(cust_orders) THEN duplicate_groups
    ELSE LET add(group) ==
                 IF Len(group) > 1 THEN Append(duplicate_groups, group)
                 ELSE duplicate_groups
         IN  GroupsOfCustomer(
                 add(GroupFrom(<<cust_orders[i]>>, cust_orders, i, i + 1, args)),
                 cust_orders, i + 1, args)

\* customer_orders of lines 128-130: the dict lower-case name -> orders,
\* as the list of its entries in insertion order
RECURSIVE OrdersByCustomer(_, _)
OrdersByCustomer(entries, orders) ==
    IF orders = <<>> THEN entries
    ELSE LET order == Head(orders)
             key == Lower(order.customer_name)
             at == {k \in 1..Len(entries) : entries[k].name = key}
         IN  OrdersByCustomer(
                 IF at = {} THEN Append(entries, [name |-> key,
                                                  orders |-> <<order>>])
                 ELSE [k \in 1..Len(entries) |->
                          IF k \in at
                          THEN [entries[k] EXCEPT !.orders = Append(@, order)]
                          ELSE entries[k]],
                 Tail(orders))

\* the loop over the customers (lines 133-195) from entry k on
RECURSIVE GroupsFrom(_, _, _, _)
GroupsFrom(duplicate_groups, customer_orders, k, args) ==
    IF k > Len(customer_orders) THEN duplicate_groups
    ELSE GroupsFrom(
             IF Len(customer_orders[k].orders) <= 1 THEN duplicate_groups
             ELSE GroupsOfCustomer(
                      duplicate_groups,
                      SortOrders(customer_orders[k].orders, "order_time", FALSE),
                      1, args),
             customer_orders, k + 1, args)

\* _find_duplicate_groups
FindDuplicateGroups(orders, args) ==
    GroupsFrom(<<>>, OrdersByCustomer(<<>>, orders), 1, args)

\* itertools.chain.from_iterable
RECURSIVE Chain(_)
Chain(lists) == IF lists = <<>> THEN <<>> ELSE Head(lists) \o Chain(Tail(lists))

\* CheckDuplicatesCommand.execute: a day has 2880 ticks.  returned is the
\* value of the call, groups the groups displayed
ExecuteCheckDuplicates(all_orders, args, now) ==
    LET done(o) == [outcome |-> o, returned |-> <<>>, groups |-> <<>>]
        recent(order) == order.order_time >= now - args.recent_days * 2880
        find(duplicate_groups) ==
            IF duplicate_groups = <<>> THEN done("no_duplicates")
            ELSE [outcome |-> "found", returned |-> Chain(duplicate_groups),
                  groups |-> duplicate_groups]
        check(orders_to_check) ==
            IF orders_to_check = <<>> THEN done("none_recent")
            ELSE find(FindDuplicateGroups(orders_to_check, args))
    IN  IF all_orders = <<>> THEN done("no_orders")
        ELSE check(IF args.recent_days > 0 THEN SelectSeq(all_orders, recent)
                   ELSE all_orders)

-----------------------------------------------------------------------------
(* The commands as actions.  One run of the program executes one command    *)
(* (main.py): Exit is the end of that run, back at the shell prompt.        *)

NoCommand == [cmd |-> "none", args |-> <<>>, outcome |-> "none"]

Ran(cmd, args, r) ==
    /\ pc = "prompt"
    /\ pc' = "ran"
    /\ store' = r.store
    /\ wrote' = r.wrote
    /\ pre' = store
    /\ last' = [cmd |-> cmd, args |-> args, outcome |-> r.outcome]
    /\ mem' = IF "saved" \in DOMAIN r THEN Some(r.saved) ELSE None

\* orderflow add
Add(args, now) ==
    /\ pc = "prompt"
    /\ issued < Cardinality(Uuids)
    /\ LET ran(r) ==
           /\ Ran("add", args, r)
           /\ issued' = IF r.outcome = "added" THEN issued + 1 ELSE issued
           /\ created' = IF r.outcome = "added"
                         THEN Append(created, [status |-> args.status, ts |-> now])
                         ELSE created
       IN  ran(ExecuteAdd(store, args, issued + 1, now))
    /\ UNCHANGED others

\* orderflow update-status --id ID --status STATUS [--note NOTE]
UpdateStatus(order_id, status, note, timestamp) ==
    /\ Ran("update_status",
           [id |-> order_id, status |-> status, note |-> note, ts |-> timestamp],
           ProcessSingleUpdate(store, order_id, status, note, timestamp))
    /\ UNCHANGED <<issued, created, others>>

\* orderflow update-status --ids ID ... --status STATUS [--note NOTE]
BatchUpdateStatus(order_ids, status, note, timestamp) ==
    /\ pc = "prompt"
    /\ pc' = "ran"
    /\ LET ran(r) ==
           /\ store' = r.store
           /\ wrote' = r.wrote
           /\ pre' = store
           /\ last' = [cmd |-> "batch_update_status",
                       args |-> [ids |-> order_ids, status |-> status,
                                 note |-> note, ts |-> timestamp],
                       outcome |-> r.outcome, results |-> r.results,
                       not_found_printed |-> r.not_found_printed,
                       summary |-> r.summary]
           /\ mem' = None
       IN  ran(ProcessBatchUpdate(store, order_ids, status, note, timestamp))
    /\ UNCHANGED <<issued, created, others>>

\* orderflow update-status --id ID --rollback
Rollback(order_id) ==
    /\ Ran("rollback", [id |-> order_id], ProcessRollback(store, order_id))
    /\ UNCHANGED <<issued, created, others>>

\* UpdateCommand.execute
Update(args) ==
    /\ Ran("update", args, ExecuteUpdate(store, args))
    /\ UNCHANGED <<issued, created, others>>

\* the entries _record_history_entry has appended, over all orders
RECURSIVE AssignmentsRecorded(_)
AssignmentsRecorded(orders) ==
    IF orders = <<>> THEN 0
    ELSE Len(Head(orders).assignment_history) + AssignmentsRecorded(Tail(orders))

\* AssignCommand.execute, run while the histories hold at most bound entries
AssignUpTo(args, timestamp, bound) ==
    /\ pc = "prompt"
    /\ LET ran(r) ==
           /\ AssignmentsRecorded(r.store) <= bound
           /\ Ran("assign", [args EXCEPT !.ts = timestamp], r)
       IN  ran(ExecuteAssign(store, args, timestamp))
    /\ UNCHANGED <<issued, created, others>>

Assign(args, timestamp) == AssignUpTo(args, timestamp, MaxAssignments)

\* orderflow delete --order-id ID [--force] [--dry-run]
Delete(args, confirmation) ==
    /\ Ran("delete", [args EXCEPT !.confirmation = confirmation],
           RunDelete(store, args, confirmation))
    /\ UNCHANGED <<issued, created, others>>

\* the run of the program ends
Exit ==
    /\ pc = "ran"
    /\ pc' = "prompt"
    /\ last' = NoCommand
    /\ pre' = <<>>
    /\ wrote' = FALSE
    /\ mem' = None
    /\ UNCHANGED <<store, issued, created, others>>

Init ==
    /\ pc = "prompt"
    /\ store = <<>>
    /\ issued = 0
    /\ last = NoCommand
    /\ pre = <<>>
    /\ wrote = FALSE
    /\ created = <<>>
    /\ dinput = [kind |-> "none"]
    /\ dresult = None
    /\ mem = None
    /\ query = None
    /\ shown = None
    /\ procs = None

-----------------------------------------------------------------------------
(* Spec: two orders, one clock tick, every command.                          *)

AllStatuses == {VALID_STATUSES[i] : i \in 1..Len(VALID_STATUSES)}

\* the IDs given on the command line: those of the orders and one of no order
CmdIds == Uuids \cup {Cardinality(Uuids) + 1}

AddArgs ==
    [customer_name : {<<"A">>}, dishes : {<<"p">>}, order_total : {0, 1},
     status : AllStatuses, tags : {None}, notes : {None}]

UpdateFields(customer_name, total, add_tag, remove_tag, note, order_time, dishes, dry_run) ==
    [customer_name |-> customer_name, total |-> total, add_tag |-> add_tag,
     remove_tag |-> remove_tag, note |-> note, order_time |-> order_time,
     dishes |-> dishes, dry_run |-> dry_run]

WithId(fields, ids) ==
    {[x \in DOMAIN f \cup {"id"} |-> IF x = "id" THEN id ELSE f[x]] :
        f \in fields, id \in ids}

\* update --total T, with and without --dry-run, and update without a field
UpdateTotalArgs ==
    {UpdateFields(None, Some(t), <<>>, <<>>, None, None, None, FALSE) :
        t \in {0 - 1, 0, 1}}
    \cup {UpdateFields(None, Some(0), <<>>, <<>>, None, None, None, TRUE),
          UpdateFields(None, None, <<>>, <<>>, None, None, None, FALSE)}

UpdateArgs == WithId(UpdateTotalArgs, CmdIds)

AssignFields(partner_name, unassign, eta, reassign, dry_run) ==
    [partner_name |-> partner_name, unassign |-> unassign, eta |-> eta,
     reassign |-> reassign, dry_run |-> dry_run, ts |-> 0]

AssignChoices ==
    {AssignFields(None, TRUE, None, FALSE, d) : d \in BOOLEAN}
    \cup {AssignFields(Some("Ravi"), FALSE, Some("30m"), r, d) :
            r \in BOOLEAN, d \in BOOLEAN}
    \cup {AssignFields(Some("Bob"), FALSE, Some("30m"), FALSE, FALSE),
          AssignFields(Some("Ravi"), FALSE, Some("soon"), FALSE, FALSE),
          AssignFields(Some("Ravi"), FALSE, None, FALSE, FALSE)}

\* assign with a well-formed ETA, and unassign
AssignArgs ==
    WithId({c \in AssignChoices :
               c.unassign \/ (c.partner_name = Some("Ravi") /\ c.eta = Some("30m"))},
           CmdIds)

Next ==
    \/ \E args \in AddArgs : Add(args, 1)
    \/ \E id \in CmdIds, status \in StatusChoices :
          UpdateStatus(id, status, None, 1)
    \/ \E ids \in SeqsUpTo(CmdIds, MaxBatch) \ {<<>>}, status \in StatusChoices :
          BatchUpdateStatus(ids, status, None, 1)
    \/ \E id \in CmdIds : Rollback(id)
    \/ \E args \in UpdateArgs : Update(args)
    \/ \E args \in AssignArgs : Assign(args, 1)
    \/ Exit

Spec == Init /\ [][Next]_vars

-----------------------------------------------------------------------------
(* SpecOne: one order, two clock ticks, notes, every command.                *)

Times == {1, 2}
Notes == {None, Some("late")}

\* the ID of the order and an ID of no order
OneIds == {1, 2}

\* also update --dishes q
UpdateOneArgs ==
    WithId(UpdateTotalArgs
           \cup {UpdateFields(None, None, <<>>, <<>>, None, None, Some(<<"q">>),
                              FALSE)},
           OneIds)

NextOne ==
    \/ \E args \in AddArgs, now \in Times : issued = 0 /\ Add(args, now)
    \/ \E id \in OneIds, status \in StatusChoices, note \in Notes, ts \in Times :
          UpdateStatus(id, status, note, ts)
    \/ \E ids \in SeqsUpTo(OneIds, MaxBatch) \ {<<>>}, status \in StatusChoices,
          note \in Notes, ts \in Times :
          BatchUpdateStatus(ids, status, note, ts)
    \/ \E id \in OneIds : Rollback(id)
    \/ \E args \in UpdateOneArgs : Update(args)
    \/ \E args \in WithId(AssignChoices, OneIds) : Assign(args, 1)
    \/ Exit

SpecOne == Init /\ [][NextOne]_vars

-----------------------------------------------------------------------------
(* SpecTags: one order with tags; update --add-tag and --remove-tag with    *)
(* tags that hold a comma or a leading space.                                *)

\* the length of the tags text of a record; update --add-tag is not given
\* once it is reached (a tag with a comma can be added again and again)
MaxTagChars == 6

TagTexts == {<<"a">>, <<"a", ",", "b">>, <<" ", "a">>}

AddTagArgs ==
    [customer_name : {<<"A">>}, dishes : {<<"p">>}, order_total : {1},
     status : {"new"}, tags : {None, Some(<<"x", ",", " ", "y">>)},
     notes : {None}]

UpdateTagArgs ==
    WithId({UpdateFields(None, None, <<t>>, <<>>, None, None, None, FALSE) :
               t \in TagTexts}
           \cup {UpdateFields(None, None, <<>>, <<t>>, None, None, None, FALSE) :
                   t \in {<<"a">>, <<"x">>}},
           OneIds)

NextTags ==
    \/ \E args \in AddTagArgs : issued = 0 /\ Add(args, 1)
    \/ \E id \in OneIds, status \in StatusChoices :
          UpdateStatus(id, status, None, 1)
    \/ \E args \in UpdateTagArgs :
          /\ \A i \in 1..Len(store) : Len(store[i].tags) < MaxTagChars
          /\ Update(args)
    \/ \E args \in WithId(AssignChoices, OneIds) : Assign(args, 1)
    \/ Exit

SpecTags == Init /\ [][NextTags]_vars

-----------------------------------------------------------------------------
(* SpecStorage: the calls of JsonStorage, on Order objects as the commands   *)
(* hand them over.                                                           *)

StorageIds == {1, 2, 3}

\* the orders the constructor builds, and those with the total update
\* --total 0 leaves on the object
StorageOrders ==
    LET built(order_id, status) ==
            The(OrderInit([customer_name |-> <<"A">>, dishes |-> DishStr(<<"p">>),
                           order_total |-> 1, status |-> status,
                           order_id |-> Some(order_id), order_time |-> Some(1),
                           tags |-> [kind |-> "none"], notes |-> None,
                           status_history |-> None, delivery_info |-> None,
                           assignment_history |-> <<>>],
                          order_id, 1))
    IN  {[built(order_id, "new") EXCEPT !.order_total = total] :
            order_id \in StorageIds, total \in {0, 1}}

\* storage.save_order(order)
CallSaveOrder(order) ==
    /\ Ran("save_order", [order |-> order], Saved(store, order, "saved"))
    /\ UNCHANGED <<issued, created, others>>

\* storage.save_orders_batch(orders)
CallSaveOrdersBatch(batch) ==
    /\ Ran("save_orders_batch", [count |-> Len(batch)],
           [store |-> SaveOrdersBatch(store, batch), outcome |-> "saved",
            wrote |-> batch # <<>>])
    /\ UNCHANGED <<issued, created, others>>

\* storage.delete_order(order_id)
CallDeleteOrder(order_id) ==
    /\ pc = "prompt"
    /\ LET ran(r) ==
           Ran("delete_order", [id |-> order_id],
               [store |-> r.store, wrote |-> r.returned,
                outcome |-> IF r.returned THEN "deleted" ELSE "not_deleted"])
       IN  ran(DeleteOrder(store, order_id))
    /\ UNCHANGED <<issued, created, others>>

NextStorage ==
    \/ \E order \in StorageOrders : CallSaveOrder(order)
    \/ \E batch \in SeqsUpTo(StorageOrders, MaxBatch) : CallSaveOrdersBatch(batch)
    \/ \E order_id \in StorageIds : CallDeleteOrder(order_id)
    \/ Exit

SpecStorage == Init /\ [][NextStorage]_vars

-----------------------------------------------------------------------------
(* SpecDelete: add, update --total and delete.                               *)

DeleteArgs ==
    [order_id : CmdIds, force : BOOLEAN, dry_run : BOOLEAN, confirmation : {""}]

NextDelete ==
    \/ \E args \in AddArgs : Add(args, 1)
    \/ \E args \in UpdateArgs : Update(args)
    \/ \E args \in DeleteArgs, confirmation \in {"y", "n"} :
          Delete(args, confirmation)
    \/ Exit

SpecDelete == Init /\ [][NextDelete]_vars

-----------------------------------------------------------------------------
(* SpecAssign: one order and a history of assign, reassign and unassign.     *)

\* the entries of the assignment history of the order
MaxHistory == 3

AssignSeqChoices ==
    {AssignFields(None, TRUE, None, FALSE, d) : d \in BOOLEAN}
    \cup {AssignFields(Some(p), FALSE, Some(eta), r, d) :
            p \in {"Ravi", "Meena"}, eta \in {"30m", "1h30m"},
            r \in BOOLEAN, d \in BOOLEAN}
    \cup {AssignFields(Some("Bob"), FALSE, Some("30m"), TRUE, FALSE),
          AssignFields(Some("Ravi"), FALSE, Some("soon"), TRUE, FALSE),
          AssignFields(Some("Ravi"), FALSE, None, TRUE, FALSE)}

NextAssign ==
    \/ \E args \in AddTagArgs : issued = 0 /\ Add(args, 1)
    \/ \E args \in WithId(AssignSeqChoices, OneIds) :
          AssignUpTo(args, 1, MaxHistory)
    \/ Exit

SpecAssign == Init /\ [][NextAssign]_vars

-----------------------------------------------------------------------------
(* SpecFilter: _apply_filters, view and export on a list of orders and one   *)
(* set of criteria.                                                          *)

\* the orders storage.get_orders() returns
MaxViewOrders == 2

\* an order as from_dict builds it
ViewOrder(order_id, customer_name, status, order_time, tags, notes, dishes, order_total) ==
    The(OrderInit([customer_name |-> customer_name, dishes |-> DishStr(dishes),
                   order_total |-> order_total, status |-> status,
                   order_id |-> Some(order_id), order_time |-> Some(order_time),
                   tags |-> DishStr(tags), notes |-> Some(notes),
                   status_history |-> None, delivery_info |-> None,
                   assignment_history |-> <<>>],
                  order_id, order_time))

ViewOrders ==
    {ViewOrder(1, <<"A", "b">>, "new", 1, <<"x">>, "", <<"P", "q">>, 1),
     ViewOrder(2, <<"b">>, "canceled", 3, <<>>, "n", <<"q">>, 2),
     ViewOrder(3, <<"A">>, "new", 5, <<"X", "y", ",", "z">>, " ", <<"p">>, 1),
     ViewOrder(4, <<"c">>, "preparing", 4, <<"z">>, "n", <<"p", ",", "q">>, 3)}

\* the lists of different orders, up to n long
OrderLists(n) ==
    {list \in SeqsUpTo(ViewOrders, n) :
        \A i, j \in 1..Len(list) : list[i] = list[j] => i = j}

ViewFields(status, active_only, from_date, to_date, today, dish, customer, tag, with_notes, without_notes) ==
    [status |-> status, active_only |-> active_only, from_date |-> from_date,
     to_date |-> to_date, today |-> today, dish |-> dish, customer |-> customer,
     tag |-> tag, with_notes |-> with_notes, without_notes |-> without_notes,
     sort_by |-> "order_time", reverse |-> FALSE, page |-> 1, page_size |-> 10,
     top_dishes |-> FALSE, dish_breakdown |-> FALSE, avg_dish_value |-> FALSE]

FilterDates == {None, Some([day |-> 2])}

FilterArgs ==
    {ViewFields(status, active_only, from_date, to_date, FALSE, dish, customer,
                tag, with_notes, without_notes) :
        status \in {None, Some("new")}, active_only \in BOOLEAN,
        from_date \in FilterDates, to_date \in FilterDates,
        dish \in {None, Some(<<"P">>), Some(<<"z">>)},
        customer \in {None, Some(<<"a">>)}, tag \in {None, Some(<<"X">>)},
        with_notes \in BOOLEAN, without_notes \in BOOLEAN}
    \cup {ViewFields(None, FALSE, from_date, None, TRUE, None, customer, None,
                     FALSE, FALSE) :
            from_date \in FilterDates, customer \in {None, Some(<<>>)}}
    \cup {ViewFields(None, FALSE, Some([bad |-> TRUE]), None, FALSE, None, None,
                     None, FALSE, FALSE),
          ViewFields(None, FALSE, None, Some([bad |-> TRUE]), FALSE, None, None,
                     None, FALSE, FALSE)}

\* the dates DateValidator lets through (lines 12-20)
DatesValidated(args) ==
    /\ IF IsNone(args.from_date) THEN TRUE ELSE "day" \in DOMAIN The(args.from_date)
    /\ IF IsNone(args.to_date) THEN TRUE ELSE "day" \in DOMAIN The(args.to_date)

InitFilter ==
    /\ pc = "prompt"
    /\ store = <<>>
    /\ issued = 0
    /\ last = NoCommand
    /\ pre = <<>>
    /\ wrote = FALSE
    /\ created = <<>>
    /\ dinput = [kind |-> "none"]
    /\ dresult = None
    /\ mem = None
    /\ query \in [orders : OrderLists(MaxViewOrders), args : FilterArgs,
                   today : {2, 3}]
    /\ shown = None
    /\ procs = None

\* view_command._apply_filters(all_orders, args)
CallApplyFilters ==
    /\ ~IsNone(query) /\ shown = None
    /\ shown' = [by |-> "apply_filters",
                 result |-> ApplyFilters(query.orders, query.args, query.today)]
    /\ UNCHANGED <<store, issued, last, pre, pc, wrote, created, dinput, dresult,
                   mem, query, procs>>

\* orderflow view
View ==
    /\ ~IsNone(query) /\ shown = None
    /\ DatesValidated(query.args)
    /\ shown' = [by |-> "view",
                 result |-> ExecuteView(query.orders, query.args, query.today)]
    /\ UNCHANGED <<store, issued, last, pre, pc, wrote, created, dinput, dresult,
                   mem, query, procs>>

\* orderflow export
Export ==
    /\ ~IsNone(query) /\ shown = None
    /\ shown' = [by |-> "export",
                 result |-> ExecuteExport(query.orders, query.args, query.today)]
    /\ UNCHANGED <<store, issued, last, pre, pc, wrote, created, dinput, dresult,
                   mem, query, procs>>

NextFilter == CallApplyFilters \/ View \/ Export

SpecFilter == InitFilter /\ [][NextFilter]_vars

-----------------------------------------------------------------------------
(* SpecPages: view with --page, --page-size, --sort-by and --reverse.        *)

NoCriteria ==
    ViewFields(None, FALSE, None, None, FALSE, None, None, None, FALSE, FALSE)

PageArgs ==
    {[NoCriteria EXCEPT !.status = status, !.sort_by = sort_by,
                        !.reverse = reverse, !.page = page,
                        !.page_size = page_size] :
        status \in {None, Some("new")},
        sort_by \in {"order_time", "order_total"}, reverse \in BOOLEAN,
        page \in 0..(MaxViewOrders + 2), page_size \in (0 - 1)..3}

InitPages ==
    /\ pc = "prompt"
    /\ store = <<>>
    /\ issued = 0
    /\ last = NoCommand
    /\ pre = <<>>
    /\ wrote = FALSE
    /\ created = <<>>
    /\ dinput = [kind |-> "none"]
    /\ dresult = None
    /\ mem = None
    /\ query \in [orders : OrderLists(MaxViewOrders + 1), args : PageArgs,
                   today : {2}]
    /\ shown = None
    /\ procs = None

NextPages == View

SpecPages == InitPages /\ [][NextPages]_vars

-----------------------------------------------------------------------------
(* SpecReports: view --top-dishes, --dish-breakdown and --avg-dish-value.    *)

ReportOrders ==
    {ViewOrder(1, <<"A">>, "new", 1, <<>>, "", <<"p", ":", "2">>, 10),
     ViewOrder(2, <<"A">>, "new", 2, <<>>, "",
               <<"p", ":", "1", ",", "q", ":", "3">>, 8),
     ViewOrder(3, <<"A">>, "new", 3, <<>>, "", <<"q">>, 3),
     ViewOrder(4, <<"A">>, "new", 4, <<>>, "",
               <<"p", ":", "1", ",", "p", ":", "2">>, 6)}

ReportArgs ==
    {[NoCriteria EXCEPT !.status = status, !.top_dishes = top_dishes,
                        !.dish_breakdown = dish_breakdown,
                        !.avg_dish_value = avg_dish_value] :
        status \in {None, Some("new"), Some("canceled")},
        top_dishes \in BOOLEAN, dish_breakdown \in BOOLEAN,
        avg_dish_value \in BOOLEAN}

InitReports ==
    /\ pc = "prompt"
    /\ store = <<>>
    /\ issued = 0
    /\ last = NoCommand
    /\ pre = <<>>
    /\ wrote = FALSE
    /\ created = <<>>
    /\ dinput = [kind |-> "none"]
    /\ dresult = None
    /\ mem = None
    /\ query \in [orders : {list \in SeqsUpTo(ReportOrders, MaxViewOrders) :
                               \A i, j \in 1..Len(list) :
                                   list[i] = list[j] => i = j},
                   args : ReportArgs, today : {2}]
    /\ shown = None
    /\ procs = None

NextReports == View

SpecReports == InitReports /\ [][NextReports]_vars

-----------------------------------------------------------------------------
(* SpecDishes: the Order constructor on one dishes argument.                 *)

DishChars == {"a", ",", ":", " ", "2", "0", "-"}

DishNames == {<<>>, <<" ">>, <<"a">>, <<" ", "b">>}

DishDicts ==
    {[name |-> <<"a">>], [name |-> <<" ", "b">>, quantity |-> PyNull],
     [name |-> <<" ">>, quantity |-> PyInt(2)],
     [quantity |-> PyInt(2)], [other |-> PyInt(2)]}
    \cup {[name |-> <<"a">>, quantity |-> PyInt(q)] : q \in {0 - 1, 0, 1, 3}}
    \cup {[name |-> <<"a">>, quantity |-> PyStr(q)] :
            q \in {<<"2">>, <<"0">>, <<"x">>, <<>>}}

DishInputs ==
    {[kind |-> "none"]}
    \cup {DishStr(text) : text \in SeqsUpTo(DishChars, MaxDishChars)}
    \cup {NameList(items) : items \in SeqsUpTo(DishNames, MaxDishItems)}
    \cup {DictList(items) : items \in SeqsUpTo(DishDicts, MaxDishItems)}

InitDishes ==
    /\ pc = "prompt"
    /\ store = <<>>
    /\ issued = 0
    /\ last = NoCommand
    /\ pre = <<>>
    /\ wrote = FALSE
    /\ created = <<>>
    /\ dinput \in DishInputs
    /\ dresult = None
    /\ mem = None
    /\ query = None
    /\ shown = None
    /\ procs = None

\* Order(customer_name="A", dishes=dinput, order_total=1)
Construct ==
    /\ dresult = None
    /\ LET result(made) ==
               IF IsNone(made) THEN Some([raised |-> TRUE, dishes |-> <<>>])
               ELSE Some([raised |-> FALSE, dishes |-> The(made).dishes.dicts])
       IN  dresult' = result(OrderInit(
               [customer_name |-> <<"A">>, dishes |-> dinput, order_total |-> 1,
                status |-> "new", order_id |-> None, order_time |-> None,
                tags |-> [kind |-> "none"], notes |-> None,
                status_history |-> None, delivery_info |-> None,
                assignment_history |-> <<>>], 1, 1))
    /\ UNCHANGED <<store, issued, last, pre, pc, wrote, created, dinput, mem,
                   query, shown, procs>>

NextDishes == Construct

SpecDishes == InitDishes /\ [][NextDishes]_vars

-----------------------------------------------------------------------------
(* SpecRevenue: Order.calculate_dish_revenue on one order.                   *)

MaxRevenueDishes == 2   \* dishes of the order

\* "p:1", "s:3", ...
RevenueItems ==
    {<<name, ":", quantity>> : name \in {"p", "s"}, quantity \in {"1", "2", "3"}}

\* the dishes strings of one to MaxRevenueDishes items
RevenueDishes ==
    {Join(items, ",") : items \in SeqsUpTo(RevenueItems, MaxRevenueDishes) \ {<<>>}}

RevenueOrders ==
    {ViewOrder(1, <<"A">>, "new", 1, <<>>, "", dishes, order_total) :
        dishes \in RevenueDishes, order_total \in {1, 3, 30}}

InitRevenue ==
    /\ pc = "prompt"
    /\ store = <<>>
    /\ issued = 0
    /\ last = NoCommand
    /\ pre = <<>>
    /\ wrote = FALSE
    /\ created = <<>>
    /\ dinput = [kind |-> "none"]
    /\ dresult = None
    /\ mem = None
    /\ query \in [order : RevenueOrders]
    /\ shown = None
    /\ procs = None

\* order.calculate_dish_revenue()
CallCalculateDishRevenue ==
    /\ ~IsNone(query) /\ shown = None
    /\ shown' = [by |-> "calculate_dish_revenue",
                 result |-> CalculateDishRevenueDict(query.order)]
    /\ UNCHANGED <<store, issued, last, pre, pc, wrote, created, dinput, dresult,
                   mem, query, procs>>

NextRevenue == CallCalculateDishRevenue

SpecRevenue == InitRevenue /\ [][NextRevenue]_vars

-----------------------------------------------------------------------------
(* SpecTop: view --top-dishes and view --top-customers with --report-sort,   *)
(* no filter given.                                                          *)

MaxTopOrders == 6       \* orders of the store

\* the orders of the store are taken from this list
TopCatalog ==
    <<ViewOrder(1, <<"A">>, "new", 1, <<>>, "", <<"a", ":", "1">>, 10),
      ViewOrder(2, <<"B">>, "new", 2, <<>>, "", <<"b", ":", "2">>, 9),
      ViewOrder(3, <<"C">>, "new", 3, <<>>, "",
                <<"c", ":", "3", ",", "d", ":", "1">>, 8),
      ViewOrder(4, <<"D">>, "new", 4, <<>>, "", <<"e", ":", "1">>, 30),
      ViewOrder(5, <<"E">>, "new", 5, <<>>, "",
                <<"f", ":", "1", ",", "a", ":", "1">>, 40),
      ViewOrder(6, <<"F">>, "new", 6, <<>>, "", <<"b", ":", "1">>, 2),
      ViewOrder(7, <<"A">>, "new", 7, <<>>, "", <<"a", ":", "2">>, 5)>>

\* the elements of list at the indices of S, in the order of the list
RECURSIVE Pick(_, _, _)
Pick(list, S, i) ==
    IF i > Len(list) THEN <<>>
    ELSE (IF i \in S THEN <<list[i]>> ELSE <<>>) \o Pick(list, S, i + 1)

TopStores == {Pick(TopCatalog, S, 1) : S \in SUBSET (1..MaxTopOrders)}

ReportSorts ==
    {None} \cup {Some(k) : k \in {"quantity", "revenue", "count", "total", "avg"}}

InitTop ==
    /\ pc = "prompt"
    /\ store = <<>>
    /\ issued = 0
    /\ last = NoCommand
    /\ pre = <<>>
    /\ wrote = FALSE
    /\ created = <<>>
    /\ dinput = [kind |-> "none"]
    /\ dresult = None
    /\ mem = None
    /\ query \in [orders : TopStores \ {<<>>}, report_sort : ReportSorts]
    /\ shown = None
    /\ procs = None

\* orderflow view --top-dishes [--report-sort k]: the call of line 222
ViewTopDishes ==
    /\ ~IsNone(query) /\ shown = None
    /\ shown' = [by |-> "top_dishes",
                 result |-> TopDishesTable(
                                query.orders,
                                SortOrders(query.orders, "order_time", FALSE),
                                query.report_sort)]
    /\ UNCHANGED <<store, issued, last, pre, pc, wrote, created, dinput, dresult,
                   mem, query, procs>>

\* orderflow view --top-customers [--report-sort k]: the call of line 231
ViewTopCustomers ==
    /\ ~IsNone(query) /\ shown = None
    /\ shown' = [by |-> "top_customers",
                 result |-> TopCustomersTable(
                                query.orders,
                                SortOrders(query.orders, "order_time", FALSE),
                                query.report_sort)]
    /\ UNCHANGED <<store, issued, last, pre, pc, wrote, created, dinput, dresult,
                   mem, query, procs>>

NextTop == ViewTopDishes \/ ViewTopCustomers

SpecTop == InitTop /\ [][NextTop]_vars

-----------------------------------------------------------------------------
(* SpecTagReports: the tag revenue breakdown of the order listing and        *)
(* view --top-tags, no filter given.                                         *)

MaxTagOrders == 4       \* orders of the store

\* the orders of the store are taken from this list
TagCatalog ==
    <<ViewOrder(1, <<"A">>, "new", 1, <<"V", "I", "P">>, "", <<"p">>, 10),
      ViewOrder(2, <<"B">>, "new", 2, <<"v", "i", "p">>, "", <<"p">>, 5),
      ViewOrder(3, <<"C">>, "new", 3, <<"v", "i", "p", ",", "n">>, "", <<"p">>, 3),
      ViewOrder(4, <<"D">>, "new", 4, <<>>, "", <<"p">>, 7),
      ViewOrder(5, <<"E">>, "new", 5, <<"N">>, "", <<"p">>, 2)>>

TagStores == {Pick(TagCatalog, S, 1) : S \in SUBSET (1..MaxTagOrders)}

InitTagReports ==
    /\ pc = "prompt"
    /\ store = <<>>
    /\ issued = 0
    /\ last = NoCommand
    /\ pre = <<>>
    /\ wrote = FALSE
    /\ created = <<>>
    /\ dinput = [kind |-> "none"]
    /\ dresult = None
    /\ mem = None
    /\ query \in [orders : TagStores \ {<<>>},
                   report_sort : {None, Some("revenue"), Some("count"),
                                  Some("avg")}]
    /\ shown = None
    /\ procs = None

\* orderflow view: the call of line 293
ViewTagRevenueBreakdown ==
    /\ ~IsNone(query) /\ shown = None
    /\ shown' = [by |-> "tag_revenue_breakdown",
                 result |-> DisplayTagRevenueBreakdown(
                                SortOrders(query.orders, "order_time", FALSE))]
    /\ UNCHANGED <<store, issued, last, pre, pc, wrote, created, dinput, dresult,
                   mem, query, procs>>

\* orderflow view --top-tags [--report-sort k]: the call of line 243
ViewTopTags ==
    /\ ~IsNone(query) /\ shown = None
    /\ shown' = [by |-> "top_tags",
                 result |-> DisplayTopTags(
                                SortOrders(query.orders, "order_time", FALSE),
                                query.report_sort)]
    /\ UNCHANGED <<store, issued, last, pre, pc, wrote, created, dinput, dresult,
                   mem, query, procs>>

NextTagReports == ViewTagRevenueBreakdown \/ ViewTopTags

SpecTagReports == InitTagReports /\ [][NextTagReports]_vars

-----------------------------------------------------------------------------
(* SpecDuplicates: check-duplicates and _find_duplicate_groups on a list of  *)
(* orders.  A tick of the clock is half a minute.                            *)

MaxDupOrders == 5       \* orders of the store

\* the orders of the store are taken from this list
DupCatalog ==
    <<ViewOrder(1, <<"A">>, "new", 1, <<>>, "", <<"p", ",", "q">>, 10),
      ViewOrder(2, <<"a">>, "new", 7, <<>>, "",
                <<"q", ":", "2", ",", "p">>, 10),
      ViewOrder(3, <<"A">>, "preparing", 10, <<>>, "", <<"P", ",", "q">>, 12),
      ViewOrder(4, <<"A">>, "new", 4, <<>>, "", <<"p">>, 10),
      ViewOrder(5, <<"B">>, "new", 2, <<>>, "", <<"p", ",", "q">>, 10),
      ViewOrder(6, <<"A">>, "new", 12, <<>>, "", <<"p", ",", "q">>, 10),
      ViewOrder(7, <<"B">>, "new", 3, <<>>, "", <<"p", ",", "q">>, 10)>>

DupStores == {Pick(DupCatalog, S, 1) : S \in SUBSET (1..MaxDupOrders)}

DupArgs ==
    [time_window : {2, 5}, recent_days : {0, 1}, ignore_status : BOOLEAN,
     ignore_total : BOOLEAN, exact_match_only : BOOLEAN]

InitDuplicates ==
    /\ pc = "prompt"
    /\ store = <<>>
    /\ issued = 0
    /\ last = NoCommand
    /\ pre = <<>>
    /\ wrote = FALSE
    /\ created = <<>>
    /\ dinput = [kind |-> "none"]
    /\ dresult = None
    /\ mem = None
    /\ query \in [orders : DupStores, args : DupArgs, now : {12, 2890}]
    /\ shown = None
    /\ procs = None

\* command._find_duplicate_groups(orders, args)
CallFindDuplicateGroups ==
    /\ ~IsNone(query) /\ shown = None
    /\ shown' = [by |-> "find_duplicate_groups",
                 result |-> FindDuplicateGroups(query.orders, query.args)]
    /\ UNCHANGED <<store, issued, last, pre, pc, wrote, created, dinput, dresult,
                   mem, query, procs>>

\* orderflow check-duplicates
CheckDuplicates ==
    /\ ~IsNone(query) /\ shown = None
    /\ shown' = [by |-> "check_duplicates",
                 result |-> ExecuteCheckDuplicates(query.orders, query.args,
                                                   query.now)]
    /\ UNCHANGED <<store, issued, last, pre, pc, wrote, created, dinput, dresult,
                   mem, query, procs>>

NextDuplicates == CallFindDuplicateGroups \/ CheckDuplicates

SpecDuplicates == InitDuplicates /\ [][NextDuplicates]_vars

-----------------------------------------------------------------------------
(* SpecRace: two invocations of update-status --id --status that run at one  *)
(* time on one backing file.  Each invocation takes the steps of             *)
(* _process_single_update and of save_order one at a time: get_order reads   *)
(* the file, save_order reads it again (_read_all), opens it for writing,    *)
(* which empties it, and dumps the new content (_write_all).                 *)

Invocations == {1, 2}

\* the file before the two invocations: two orders with status new
RaceStore ==
    LET built(order_id) ==
            The(OrderInit([customer_name |-> <<"A">>, dishes |-> DishStr(<<"p">>),
                           order_total |-> 1, status |-> "new",
                           order_id |-> Some(order_id), order_time |-> Some(1),
                           tags |-> [kind |-> "none"], notes |-> None,
                           status_history |-> None, delivery_info |-> None,
                           assignment_history |-> <<>>],
                          order_id, 1))
    IN  SaveOrder(SaveOrder(<<>>, built(1)), built(2))

RaceArgs ==
    [id : {1, 2}, status : {"preparing", "canceled", "delivered"}, note : {None}]

InitRace ==
    /\ pc = "prompt"
    /\ store = RaceStore
    /\ issued = 2
    /\ last = NoCommand
    /\ pre = <<>>
    /\ wrote = FALSE
    /\ created = <<>>
    /\ dinput = [kind |-> "none"]
    /\ dresult = None
    /\ mem = None
    /\ query = None
    /\ shown = None
    /\ \E args \in [Invocations -> RaceArgs] :
          procs = [file |-> "whole", clock |-> 1,
                   inv |-> [p \in Invocations |->
                              [at |-> "start", args |-> args[p], order |-> None,
                               orders |-> <<>>, outcome |-> "none",
                               read_at |-> 0, open_at |-> 0, wrote_at |-> 0]]]

\* what _read_all returns: a file that is open for writing, or that two
\* writers have mixed, does not parse, and _read_all then returns []
ReadAll == IF procs.file = "whole" THEN store ELSE <<>>

\* the content _write_all dumps, the file re-read at that moment
DumpContent_Reread(current, orders, order) == SaveOrder(current, order)

\* the content _write_all dumps: the list save_order read, with the order
\* replaced or appended (lines 108-116)
DumpContent(current, orders, order) == SaveOrder(orders, order)

RaceFrame == UNCHANGED <<issued, last, pre, pc, wrote, created, dinput, dresult, mem, query, shown>>

\* lines 254-282 of _process_single_update: get_order reads the file, the
\* checks are made and the status is changed on the object; timestamp is
\* the number of the invocation
RaceGetOrder(p) ==
    /\ ~IsNone(procs) /\ procs.inv[p].at = "start"
    /\ LET me == procs.inv[p]
           step(r) ==
               IF r.outcome = "updated"
               THEN [me EXCEPT !.at = "loaded", !.order = Some(r.saved)]
               ELSE [me EXCEPT !.at = "done", !.outcome = r.outcome]
       IN  procs' = [procs EXCEPT
                       !.clock = @ + 1,
                       !.inv[p] = step(ProcessSingleUpdate(
                                           ReadAll, me.args.id, me.args.status,
                                           me.args.note, p + 1))]
    /\ UNCHANGED store
    /\ RaceFrame

\* line 98 of save_order: orders = self._read_all()
RaceReadAll(p) ==
    /\ ~IsNone(procs) /\ procs.inv[p].at = "loaded"
    /\ procs' = [procs EXCEPT !.clock = @ + 1,
                              !.inv[p].at = "read",
                              !.inv[p].orders = ReadAll,
                              !.inv[p].read_at = procs.clock]
    /\ UNCHANGED store
    /\ RaceFrame

\* line 83 of _write_all: open(self.file_path, 'w') empties the file
RaceOpen(p) ==
    /\ ~IsNone(procs) /\ procs.inv[p].at = "read"
    /\ procs' = [procs EXCEPT !.clock = @ + 1,
                              !.file = "open",
                              !.inv[p].at = "open",
                              !.inv[p].open_at = procs.clock]
    /\ UNCHANGED store
    /\ RaceFrame

\* another invocation had the file open for writing at some moment since
\* invocation p opened it
Overlapped(p) ==
    \E q \in Invocations \ {p} :
        \/ procs.inv[q].at = "open"
        \/ procs.inv[q].wrote_at > procs.inv[p].open_at

\* line 84 of _write_all: json.dump writes the content and the file is
\* closed; _write_all returns True and the change is reported.  Two
\* writers that had the file open together leave the content of the one
\* that dumps last or a mixture that does not parse
RaceDump(p) ==
    /\ ~IsNone(procs) /\ procs.inv[p].at = "open"
    /\ \E mixed \in (IF Overlapped(p) THEN BOOLEAN ELSE {FALSE}) :
          /\ store' = IF mixed THEN <<>>
                      ELSE DumpContent(store, procs.inv[p].orders,
                                       The(procs.inv[p].order))
          /\ procs' = [procs EXCEPT
                          !.clock = @ + 1,
                          !.file = IF mixed THEN "mixed" ELSE "whole",
                          !.inv[p].at = "done",
                          !.inv[p].outcome = "updated",
                          !.inv[p].wrote_at = procs.clock]
    /\ RaceFrame

NextRace ==
    \E p \in Invocations :
        RaceGetOrder(p) \/ RaceReadAll(p) \/ RaceOpen(p) \/ RaceDump(p)

SpecRace == InitRace /\ [][NextRace]_vars

-----------------------------------------------------------------------------
(* SpecUpdate: one order with tags and a note; update with every field but   *)
(* --order-time, with and without --dry-run.                                 *)

AddNotedArgs ==
    [customer_name : {<<"A">>}, dishes : {<<"p">>}, order_total : {1},
     status : {"new"}, tags : {Some(<<"x">>)}, notes : {None, Some("n")}]

UpdateFieldArgs ==
    {UpdateFields(customer_name, total, tags[1], tags[2], note, None, dishes,
                  dry_run) :
        customer_name \in {None, Some(<<"B">>)},
        total \in {None, Some(2)},
        tags \in {<<<<>>, <<>>>>, <<<<<<"y">>>>, <<<<"x">>>>>>},
        note \in {None, Some(""), Some("m")},
        dishes \in {None, Some(<<"p", ",", "p">>), Some(<<"q">>)},
        dry_run \in BOOLEAN}

NextUpdate ==
    \/ \E args \in AddNotedArgs : issued = 0 /\ Add(args, 1)
    \/ UpdateStatus(1, "preparing", None, 1)
    \/ \E args \in WithId(UpdateFieldArgs, {1}) : Update(args)
    \/ \E args \in WithId(AssignChoices, {1}) : Assign(args, 1)
    \/ Exit

SpecUpdate == Init /\ [][NextUpdate]_vars

-----------------------------------------------------------------------------
(* Properties *)

Stored(orders, order_id) == IndexOf(orders, order_id) # 0
RecOf(orders, order_id) == orders[IndexOf(orders, order_id)]

NoDuplicates(list) ==
    \A i, j \in 1..Len(list) : list[i] = list[j] => i = j

Legal(current, requested) == InList(requested, VALID_TRANSITIONS[current])

IsUpdateStatus == last.cmd = "update_status"
IsBatch == last.cmd = "batch_update_status"
IsRollback == last.cmd = "rollback"

Rejections == {"not_found", "already_final", "invalid_transition"}

\* C1: an update-status request on a stored order is accepted exactly when the
\* requested status is in the table entry of the order's status, in a single
\* update and for every ID of a bulk update (IDs given once), and a request
\* never changes an order that is delivered or canceled.
C1_AcceptedIffLegal ==
    /\ IsUpdateStatus /\ Stored(pre, last.args.id) =>
          (last.outcome = "updated"
              <=> Legal(RecOf(pre, last.args.id).status, last.args.status))
    /\ IsBatch /\ NoDuplicates(last.args.ids) =>
          \A k \in 1..Len(last.args.ids) :
             Stored(pre, last.args.ids[k]) =>
                (InList(last.args.ids[k], last.results.updated)
                    <=> Legal(RecOf(pre, last.args.ids[k]).status, last.args.status))
    /\ IsUpdateStatus \/ IsBatch =>
          \A i \in 1..Len(pre) :
             pre[i].status \in {"delivered", "canceled"} => store[i] = pre[i]

\* C2: a rejected update-status request leaves the file as it was and writes
\* nothing, and the same request made again is rejected the same way with
\* the file still unchanged; in a bulk update every rejected ID's record is
\* left as it was, and nothing is written when no ID is updated.
C2_RejectionChangesNothing ==
    /\ IsUpdateStatus /\ last.outcome \in Rejections =>
          /\ store = pre
          /\ ~wrote
          /\ LET again == ProcessSingleUpdate(store, last.args.id,
                              last.args.status, last.args.note, last.args.ts)
             IN  again.outcome = last.outcome /\ again.store = pre /\ ~again.wrote
    /\ IsUpdateStatus => (last.outcome \in Rejections <=> last.outcome # "updated")
    /\ IsBatch =>
          /\ \A i \in 1..Len(pre) :
                ~InList(pre[i].order_id, last.results.updated) => store[i] = pre[i]
          /\ last.results.updated = <<>> => store = pre /\ ~wrote
          /\ Len(store) = Len(pre)

C2_Witness ==
    /\ IsUpdateStatus
    /\ last.outcome = "invalid_transition"
    /\ RecOf(pre, last.args.id).status = "new"
    /\ last.args.status = "delivered"
    /\ RecOf(store, last.args.id).status = "new"

\* C3: an accepted update-status request appends the one entry (timestamp,
\* requested status, note) to the order's status_history, sets status to the
\* requested status, keeps the earlier entries, and the order read back from
\* storage shows that status and that history; so does every ID a bulk
\* update reports as updated.
Applied(order_id, status, note, timestamp) ==
    /\ Stored(pre, order_id)
    /\ Stored(store, order_id)
    /\ LET before == RecOf(pre, order_id)
           after == RecOf(store, order_id)
           read == GetOrder(store, order_id)
       IN  /\ after.status = status
           /\ after.status_history =
                 before.status_history \o <<HistoryEntry(timestamp, status, note)>>
           /\ ~IsNone(read)
           /\ The(read).status = status
           /\ The(read).status_history = after.status_history

C3_LegalUpdateAppends ==
    /\ IsUpdateStatus /\ last.outcome = "updated" =>
          wrote /\ Applied(last.args.id, last.args.status, last.args.note,
                           last.args.ts)
    /\ IsBatch =>
          \A k \in 1..Len(last.results.updated) :
             Applied(last.results.updated[k], last.args.status, last.args.note,
                     last.args.ts)

C3_Witness ==
    /\ IsUpdateStatus
    /\ last.outcome = "updated"
    /\ last.args.note = Some("late")
    /\ Len(RecOf(pre, last.args.id).status_history) = 2
    /\ Len(RecOf(store, last.args.id).status_history) = 3
    /\ RecOf(store, last.args.id).status_history[3].ts
          # RecOf(store, last.args.id).status_history[2].ts

\* C4: rollback undoes the most recent accepted update-status: run on the
\* file an accepted update-status left, it gives the order the status and
\* the status_history it had before that update; and every rollback removes
\* the last entry and sets status to the status of the entry before it.
C4_RollbackInvertsUpdate ==
    /\ IsUpdateStatus /\ last.outcome = "updated" =>
          LET r == ProcessRollback(store, last.args.id) IN
          /\ r.outcome = "rolled_back"
          /\ RecOf(r.store, last.args.id).status = RecOf(pre, last.args.id).status
          /\ RecOf(r.store, last.args.id).status_history
                = RecOf(pre, last.args.id).status_history
    /\ IsRollback /\ last.outcome = "rolled_back" =>
          LET before == RecOf(pre, last.args.id)
              after == RecOf(store, last.args.id)
              n == Len(before.status_history)
          IN  /\ after.status_history = SubSeq(before.status_history, 1, n - 1)
              /\ after.status = before.status_history[n - 1].status

\* new -> preparing -> delivered, then one rollback: preparing, 2 entries
C4_Witness ==
    /\ IsRollback
    /\ last.outcome = "rolled_back"
    /\ LET before == RecOf(pre, last.args.id)
           after == RecOf(store, last.args.id)
       IN  /\ before.status = "delivered"
           /\ Len(before.status_history) = 3
           /\ before.status_history[1].status = "new"
           /\ after.status = "preparing"
           /\ Len(after.status_history) = 2

\* C5 as stated: rollback on an order with exactly one history entry, or on
\* an order that is not found, fails with the 'no previous status' condition
\* and changes nothing.
NothingToRollBack ==
    /\ IsRollback
    /\ \/ ~Stored(pre, last.args.id)
       \/ Len(RecOf(pre, last.args.id).status_history) = 1

C5_Original ==
    NothingToRollBack =>
        last.outcome = "no_previous_status" /\ store = pre /\ ~wrote

\* C5 amended: such a rollback fails and changes nothing; the condition it
\* reports is 'no previous status' when get_order returned the order and
\* 'not found' when it returned none.
C5_RollbackFailsUnchanged ==
    NothingToRollBack =>
        /\ store = pre
        /\ ~wrote
        /\ last.outcome =
              IF IsNone(GetOrder(pre, last.args.id)) THEN "not_found"
              ELSE "no_previous_status"

C5_Witness ==
    /\ IsRollback
    /\ Stored(pre, last.args.id)
    /\ Len(RecOf(pre, last.args.id).status_history) = 1
    /\ last.outcome = "no_previous_status"

\* C6: every stored order's status_history is non-empty and its first entry
\* carries the status and the time the order was created with; a command
\* leaves every order in the file, and of the history an order had before
\* the command, all entries but the last are still there, in place and
\* unchanged.
AllButLast(h) == SubSeq(h, 1, Len(h) - 1)

IsPrefix(p, h) == Len(p) <= Len(h) /\ SubSeq(h, 1, Len(p)) = p

C6_HistoryKeepsItsPast ==
    /\ \A i \in 1..Len(store) :
          /\ store[i].status_history # <<>>
          /\ store[i].status_history[1].status = created[store[i].order_id].status
          /\ store[i].status_history[1].ts = created[store[i].order_id].ts
    /\ pc = "ran" =>
          \A i \in 1..Len(pre) :
             /\ Stored(store, pre[i].order_id)
             /\ IsPrefix(AllButLast(pre[i].status_history),
                         RecOf(store, pre[i].order_id).status_history)

\* an order created as preparing at time 2, moved on and rolled back, then
\* changed by update
C6_Witness ==
    /\ last.cmd = "update"
    /\ last.outcome = "updated"
    /\ Len(store) = 1
    /\ created[1] = [status |-> "preparing", ts |-> 2]
    /\ Len(store[1].status_history) = 2
    /\ store[1].status_history[2].status = "canceled"
    /\ store[1].assignment_history # <<>>

\* C7: a bulk update leaves the file as applying the single update-status
\* to each ID in list order does; an ID that fails does not stop the IDs
\* after it and does not undo the IDs before it.
RECURSIVE FoldSingle(_, _, _, _, _)
FoldSingle(orders, order_ids, status, note, timestamp) ==
    IF order_ids = <<>> THEN orders
    ELSE FoldSingle(
            ProcessSingleUpdate(orders, Head(order_ids), status, note,
                                timestamp).store,
            Tail(order_ids), status, note, timestamp)

C7_BulkIsSequentialSingles ==
    IsBatch =>
        /\ store = FoldSingle(pre, last.args.ids, last.args.status,
                              last.args.note, last.args.ts)
        /\ \A k \in 1..Len(last.args.ids) :
              LET id == last.args.ids[k] IN
              Stored(pre, id) /\ ~IsNone(GetOrder(pre, id))
                 /\ Legal(RecOf(pre, id).status, last.args.status)
              => RecOf(store, id).status = last.args.status

\* the first ID fails, the second is updated
C7_Witness ==
    /\ IsBatch
    /\ Len(last.args.ids) = 2
    /\ last.results.invalid_transition = <<last.args.ids[1]>>
    /\ last.results.updated = <<last.args.ids[2]>>
    /\ RecOf(store, last.args.ids[2]).status = last.args.status
    /\ RecOf(store, last.args.ids[1]) = RecOf(pre, last.args.ids[1])

\* C8: a bulk update puts every ID of its list into one of the four buckets
\* updated, invalid_transition, already_final and not_found, its summary
\* holds a count for each of the four, and the counts it reports add up to
\* the number of IDs given.
C8_FourCountsAddUp ==
    IsBatch =>
        /\ \A k \in 1..Len(last.args.ids) :
              \/ InList(last.args.ids[k], last.results.updated)
              \/ InList(last.args.ids[k], last.results.invalid_transition)
              \/ InList(last.args.ids[k], last.results.already_final)
              \/ /\ "not_found" \in DOMAIN last.results
                 /\ InList(last.args.ids[k], last.results.not_found)
        /\ last.summary.updated + last.summary.invalid_transition
              + last.summary.already_final
              + (IF "not_found" \in DOMAIN last.summary
                 THEN last.summary.not_found ELSE 0)
              = Len(last.args.ids)

\* C9: every order in the file has an order_total greater than zero.
C9_TotalsPositive ==
    \A i \in 1..Len(store) : store[i].order_total > 0

\* C10: the constructor raises exactly when its dishes argument yields no
\* dish; when it accepts, the dishes list is non-empty and every dish has an
\* integer quantity of at least 1 (and, from a string or a list of names, a
\* non-empty name), a quantity that is missing, does not parse or is below
\* 1 having become 1.
QuantityOf(text) ==
    LET n == ParseInt(Strip(text)) IN
    IF IsNone(n) \/ The(n) < 1 THEN 1 ELSE The(n)

Built == ~IsNone(dresult)

C10_DishesNonEmptyQuantitiesPositive ==
    Built =>
        LET r == The(dresult) IN
        /\ r.raised <=> ParseDishes(dinput) = <<>>
        /\ ~DishesTruthy(dinput) => r.raised
        /\ ~r.raised =>
              /\ r.dishes # <<>>
              /\ \A k \in 1..Len(r.dishes) :
                    /\ DOMAIN r.dishes[k] = {"name", "quantity"}
                    /\ dinput.kind # "dicts" => r.dishes[k].name # <<>>
                    /\ DOMAIN r.dishes[k].quantity = {"int"}
                    /\ r.dishes[k].quantity.int \in Nat \ {0}
        /\ dinput.kind = "names" /\ ~r.raised =>
              \A k \in 1..Len(r.dishes) : r.dishes[k].quantity.int = 1
        /\ dinput.kind = "dicts" /\ ~r.raised =>
              /\ Len(r.dishes) <= Len(dinput.dicts)
              /\ Len(r.dishes) = Len(dinput.dicts) =>
                    \A k \in 1..Len(r.dishes) :
                       LET q == IF "quantity" \in DOMAIN dinput.dicts[k]
                                THEN dinput.dicts[k].quantity ELSE PyInt(1)
                       IN  r.dishes[k].quantity.int =
                              (CASE "int" \in DOMAIN q ->
                                       IF q.int < 1 THEN 1 ELSE q.int
                                 [] "str" \in DOMAIN q -> QuantityOf(q.str)
                                 [] OTHER -> 1)
        /\ dinput.kind = "str" /\ ~r.raised /\ Find(dinput.s, ",") = 0 =>
              LET colon == Find(dinput.s, ":") IN
              /\ Len(r.dishes) = 1
              /\ r.dishes[1].quantity.int =
                    IF colon = 0 THEN 1
                    ELSE QuantityOf(SubSeq(dinput.s, colon + 1, Len(dinput.s)))

\* 'a:0' is accepted with the quantity 1
C10_Witness ==
    /\ Built
    /\ dinput = DishStr(<<"a", ":", "0">>)
    /\ ~The(dresult).raised
    /\ The(dresult).dishes = <<DishDict(<<"a">>, 1)>>

-----------------------------------------------------------------------------
\* C11: every Order object a command hands to save_order (built by add, or
\* changed by update, update-status or assign) survives to_dict followed by
\* from_dict: the reloaded order exists and has the same order_id, dishes,
\* order_total, status, tags and notes.
C11_RoundTrip ==
    ~IsNone(mem) =>
        LET same(order, back) ==
                /\ ~IsNone(back)
                /\ The(back).order_id = order.order_id
                /\ The(back).dishes = order.dishes
                /\ The(back).order_total = order.order_total
                /\ The(back).status = order.status
                /\ The(back).tags = order.tags
                /\ The(back).notes = order.notes
        IN  same(The(mem), FromDict(ToDict(The(mem))))

-----------------------------------------------------------------------------
OnePerId(orders) ==
    \A i, j \in 1..Len(orders) : orders[i].order_id = orders[j].order_id => i = j

\* C12: the file never holds two records with one order_id, whatever
\* save_order, save_orders_batch and delete_order calls were made; save_order
\* of a stored ID replaces that record where it is and leaves the other
\* records and their number alone; save_order of a new ID adds one record.
C12_UpsertByOrderId ==
    /\ OnePerId(store)
    /\ last.cmd = "save_order" =>
          LET order == last.args.order
              i == IndexOf(pre, order.order_id)
          IN  IF i # 0
              THEN /\ Len(store) = Len(pre)
                   /\ store[i] = ToDict(order)
                   /\ \A j \in 1..Len(pre) : j # i => store[j] = pre[j]
              ELSE /\ Len(store) = Len(pre) + 1
                   /\ SubSeq(store, 1, Len(pre)) = pre
                   /\ store[Len(store)] = ToDict(order)

\* save_order has replaced the second of three records
C12_Witness ==
    /\ last.cmd = "save_order"
    /\ Len(pre) = 3
    /\ IndexOf(pre, last.args.order.order_id) = 2
    /\ store # pre

-----------------------------------------------------------------------------
\* C13: after the delete command has run for the ID of a stored order, with
\* --force or a confirmed prompt and without --dry-run, the file holds no
\* record with that ID: get_order returns nothing for it and get_orders does
\* not list it.
C13_DeleteRemoves ==
    (/\ last.cmd = "delete"
     /\ Stored(pre, last.args.order_id)
     /\ last.args.force \/ last.args.confirmation \in {"y", "yes"}
     /\ ~last.args.dry_run)
    => /\ ~Stored(store, last.args.order_id)
       /\ IsNone(GetOrder(store, last.args.order_id))
       /\ IndexOf(GetOrders(store), last.args.order_id) = 0

-----------------------------------------------------------------------------
LastEntry(record) == record.assignment_history[Len(record.assignment_history)]

Assigning(record) ==
    /\ record.assignment_history # <<>>
    /\ LastEntry(record).action \in {"assign", "reassign"}

\* C14: whatever assign commands ran (accepted, rejected, dry-run), a stored
\* order has delivery_info exactly when the last entry of its
\* assignment_history is an assign or a reassign, and delivery_info then
\* holds the partner name and the ETA of that entry.
C14_DeliveryInfoFollowsHistory ==
    \A i \in 1..Len(store) :
        /\ ~IsNone(store[i].delivery_info) <=> Assigning(store[i])
        /\ Assigning(store[i]) =>
              /\ The(store[i].delivery_info).partner_name
                    = LastEntry(store[i]).partner_name
              /\ The(store[i].delivery_info).eta = LastEntry(store[i]).eta

\* the order was assigned, unassigned and assigned again, and a reassign to
\* another partner was then rejected or run dry
C14_Witness ==
    /\ last.cmd = "assign"
    /\ ~last.args.unassign
    /\ last.outcome \in {"dry_run", "unknown_partner", "invalid_eta"}
    /\ Len(store) = 1
    /\ Len(store[1].assignment_history) = 3
    /\ store[1].assignment_history[2].action = "unassign"
    /\ Assigning(store[1])
    /\ last.args.partner_name # Some(LastEntry(store[1]).partner_name)

-----------------------------------------------------------------------------
\* two characters that are one letter, whatever their case
SameLetter(a, b) ==
    \/ a = b
    \/ \E i \in 1..Len(UpperCase) : {a, b} = {UpperCase[i], LowerCase[i]}

\* hay holds needle, case apart
HoldsFolded(hay, needle) ==
    \E offset \in 0..(Len(hay) - Len(needle)) :
        \A k \in 1..Len(needle) : SameLetter(needle[k], hay[offset + k])

\* a text criterion is supplied when it is given and not empty
Supplied(text) == text \notin {None, Some(<<>>)}

\* the order meets every criterion of args but the dish needle
Satisfies(order, args, today) ==
    /\ ~IsNone(args.status) => order.status = The(args.status)
    /\ args.active_only => order.status # "canceled"
    /\ args.today => DateOf(order.order_time) = today
    /\ (~args.today /\ ~IsNone(args.from_date))
          => DateOf(order.order_time) >= The(args.from_date).day
    /\ (~args.today /\ ~IsNone(args.to_date))
          => DateOf(order.order_time) <= The(args.to_date).day
    /\ Supplied(args.customer)
          => HoldsFolded(order.customer_name, The(args.customer))
    /\ Supplied(args.tag)
          => \E i \in 1..Len(order.tags) : HoldsFolded(order.tags[i], The(args.tag))
    /\ args.with_notes => ~NotesBlank(order.notes)
    /\ args.without_notes => NotesBlank(order.notes)

Matching(orders, args, today) ==
    LET meets(order) == Satisfies(order, args, today)
    IN  SelectSeq(orders, meets)

Filtered == ~IsNone(shown) /\ shown.by = "apply_filters"

\* C15: called without a dish needle and with well-formed dates,
\* _apply_filters returns exactly the orders that meet every supplied
\* criterion (status, active-only, the inclusive date range on the date of
\* order_time, customer and tag substrings whatever the case, notes present
\* or absent), in the order of its input; a criterion not supplied excludes
\* no order.
C15_FilterExact ==
    (Filtered /\ ~Supplied(query.args.dish) /\ DatesValidated(query.args))
    => /\ ~shown.result.raised
       /\ shown.result.orders = Matching(query.orders, query.args, query.today)

\* of two orders the filter kept the second only: the customer needle "a"
\* matched "A" and the first order fell to the date range
C15_Witness ==
    /\ Filtered
    /\ ~Supplied(query.args.dish)
    /\ query.args.customer = Some(<<"a">>)
    /\ ~IsNone(query.args.from_date)
    /\ ~IsNone(query.args.status)
    /\ Len(query.orders) = 2
    /\ shown.result.orders = <<query.orders[2]>>

-----------------------------------------------------------------------------
Listed == ~IsNone(shown) /\ shown.by \in {"view", "export"}

\* the orders with a dish whose name holds the needle, case apart
WithDish(orders, needle) ==
    LET has(order) ==
            \E i \in 1..Len(order.dishes.dicts) :
                HoldsFolded(order.dishes.dicts[i].name, needle)
    IN  SelectSeq(orders, has)

\* C16: given a dish needle, view and export complete and return exactly
\* the orders that meet the other criteria and have a dish whose name holds
\* the needle, whatever the case.
C16_DishNeedle ==
    (/\ Listed
     /\ Supplied(query.args.dish)
     /\ DatesValidated(query.args)
     /\ ~(query.args.with_notes /\ query.args.without_notes))
    => /\ shown.result.outcome \notin {"unexpected_error", "error"}
       /\ shown.result.returned
            = SortOrders(WithDish(Matching(query.orders, query.args, query.today),
                                  The(query.args.dish)),
                         query.args.sort_by, query.args.reverse)

\* C17: view and export given both --with-notes and --without-notes report
\* a usage error and filter nothing.
C17_NotesContradiction ==
    (Listed /\ query.args.with_notes /\ query.args.without_notes)
    => shown.result.outcome = "usage_error"

-----------------------------------------------------------------------------
Viewed == ~IsNone(shown) /\ shown.by = "view"

\* the filtered, sorted list of the query
FullList ==
    SortOrders(Matching(query.orders, query.args, query.today),
               query.args.sort_by, query.args.reverse)

\* the least number of pages of page_size orders that hold count orders
PagesNeeded(count, page_size) ==
    CHOOSE n \in 0..count : n * page_size >= count /\ (n - 1) * page_size < count

\* C18: for a filtered list of count >= 1 orders and page >= 1: with
\* page_size >= 1 there are ceil(count / page_size) pages; a page beyond
\* them is an error that reports their number and shows no order; a page
\* among them shows the orders (page-1)*page_size+1 .. page*page_size of the
\* sorted list; page_size = 0 shows the whole list.
C18_Pagination ==
    (Viewed /\ FullList # <<>> /\ query.args.page >= 1 /\ query.args.page_size >= 0)
    => LET count == Len(FullList)
           page == query.args.page
           page_size == query.args.page_size
           first == (page - 1) * page_size + 1
           last_shown == IF page * page_size < count THEN page * page_size
                         ELSE count
       IN  IF page_size = 0
           THEN shown.result.outcome = "shown" /\ shown.result.table = FullList
           ELSE IF page > PagesNeeded(count, page_size)
           THEN /\ shown.result.outcome = "page_error"
                /\ shown.result.total_pages = Some(PagesNeeded(count, page_size))
                /\ shown.result.table = <<>>
           ELSE /\ shown.result.outcome = "shown"
                /\ shown.result.total_pages = Some(PagesNeeded(count, page_size))
                /\ shown.result.table
                     = [i \in 1..(last_shown - first + 1) |-> FullList[first + i - 1]]

\* the second and last page of three orders, two to a page, holds the third
C18_Witness ==
    /\ Viewed
    /\ Len(FullList) = 3
    /\ query.args.page_size = 2
    /\ query.args.page = 2
    /\ shown.result.table = <<FullList[3]>>

\* the tables of the pages p..total of the query, one after the other
RECURSIVE PagesFrom(_, _)
PagesFrom(p, total) ==
    IF p > total THEN <<>>
    ELSE ExecuteView(query.orders, [query.args EXCEPT !.page = p],
                     query.today).table
         \o PagesFrom(p + 1, total)

\* C19: with page_size >= 1 and the store, the criteria and the sort fixed,
\* the tables of the pages 1..total_pages one after the other are the
\* filtered, sorted list, each order once, and no page is empty.
C19_PagesCoverList ==
    (Viewed /\ FullList # <<>> /\ query.args.page = 1 /\ query.args.page_size >= 1)
    => LET total == The(shown.result.total_pages)
       IN  /\ PagesFrom(1, total) = FullList
           /\ \A i, j \in 1..Len(FullList) :
                 FullList[i].order_id = FullList[j].order_id => i = j
           /\ \A p \in 1..total :
                 ExecuteView(query.orders, [query.args EXCEPT !.page = p],
                             query.today).table # <<>>

\* three orders, two to a page: two pages
C19_Witness ==
    /\ Viewed
    /\ Len(FullList) = 3
    /\ query.args.page = 1
    /\ query.args.page_size = 2
    /\ shown.result.total_pages = Some(2)
    /\ Len(shown.result.table) = 2

-----------------------------------------------------------------------------
\* the quantities of the dishes of the list named name, summed (every
\* dish with name = <<>>)
RECURSIVE QuantityNamed(_, _)
QuantityNamed(dishes, name) ==
    IF dishes = <<>> THEN 0
    ELSE (IF name = <<>> \/ Head(dishes).name = name
          THEN Head(dishes).quantity.int ELSE 0)
         + QuantityNamed(Tail(dishes), name)

\* the product of the total quantities of the orders
RECURSIVE AllQuantities(_)
AllQuantities(orders) ==
    IF orders = <<>> THEN 1
    ELSE QuantityNamed(Head(orders).dishes.dicts, <<>>)
         * AllQuantities(Tail(orders))

\* the sum over the orders of order_total * dish_quantity / total quantity,
\* as a multiple of 1 / scale, scale being a multiple of every total quantity
RECURSIVE RevenueNamed(_, _, _)
RevenueNamed(orders, name, scale) ==
    IF orders = <<>> THEN 0
    ELSE Head(orders).order_total
           * QuantityNamed(Head(orders).dishes.dicts, name)
           * (scale \div QuantityNamed(Head(orders).dishes.dicts, <<>>))
         + RevenueNamed(Tail(orders), name, scale)

RECURSIVE QuantitySold(_, _)
QuantitySold(orders, name) ==
    IF orders = <<>> THEN 0
    ELSE QuantityNamed(Head(orders).dishes.dicts, name)
         + QuantitySold(Tail(orders), name)

\* the report has one row for every dish name of the orders, with the
\* quantity, the revenue and the average per unit of that dish
ReportRight(report, orders) ==
    /\ ~IsNone(report)
    /\ \A k \in 1..Len(orders) : \A d \in 1..Len(orders[k].dishes.dicts) :
          LET name == orders[k].dishes.dicts[d].name
              scale == AllQuantities(orders)
              rows == {i \in 1..Len(The(report)) : The(report)[i].name = name}
          IN  /\ Cardinality(rows) = 1
              /\ \A i \in rows :
                    LET row == The(report)[i] IN
                    /\ row.quantity = QuantitySold(orders, name)
                    /\ row.revenue.num * scale
                         = RevenueNamed(orders, name, scale) * row.revenue.den
                    /\ row.avg.num * scale * QuantitySold(orders, name)
                         = RevenueNamed(orders, name, scale) * row.avg.den

\* C20: run over a non-empty list of orders, each of --top-dishes,
\* --dish-breakdown and --avg-dish-value completes and shows for every dish
\* name the sum of its quantities, the sum over the orders of
\* order_total * dish_quantity / total_quantity_in_order, and that revenue
\* divided by that quantity as the average per unit.
C20_RevenueByDish ==
    (Viewed /\ FullList # <<>>)
    => /\ shown.result.outcome = "shown"
       /\ query.args.top_dishes => ReportRight(shown.result.top_dishes, FullList)
       /\ query.args.dish_breakdown
             => ReportRight(shown.result.dish_breakdown, FullList)
       /\ query.args.avg_dish_value
             => ReportRight(shown.result.avg_dish_value, FullList)

-----------------------------------------------------------------------------
RECURSIVE RatSum(_)
RatSum(entries) ==
    IF entries = <<>> THEN Rat(0, 1)
    ELSE RatAdd(Head(entries).revenue, RatSum(Tail(entries)))

RevenueCalculated == ~IsNone(shown) /\ shown.by = "calculate_dish_revenue"

\* C21: calculate_dish_revenue returns for every dish of the order
\* order_total * quantity / total quantity, and the returned revenues add
\* up to order_total, also when the order lists a dish name more than once.
C21_RevenueAddsUp ==
    RevenueCalculated
    => /\ RatSum(shown.result) = Rat(query.order.order_total, 1)
       /\ \A i \in 1..Len(query.order.dishes.dicts) :
             LET dish == query.order.dishes.dicts[i] IN
             \E k \in 1..Len(shown.result) :
                /\ shown.result[k].name = dish.name
                /\ shown.result[k].revenue
                     = Rat(query.order.order_total
                             * QuantityNamed(query.order.dishes.dicts, dish.name),
                           GetTotalQuantity(query.order))


-----------------------------------------------------------------------------
\* the dishes of the orders with their quantities and revenues
DishTotals(orders) == ReportRows(TopDishesLoop(<<>>, orders, 1, 1))

\* the customers of the orders with their orders
CustomerTotals(orders) == CustomerOrders(<<>>, orders)

\* the number a dish has on a key, as a multiple of 1 / scale
DishKey(r, key, scale) ==
    IF key = "revenue" THEN (r.revenue.num * scale) \div r.revenue.den
    ELSE r.quantity * scale

\* the number a customer has on a key, as a multiple of 1 / scale
CustomerKey(e, key, scale) ==
    CASE key = "total" -> SumTotals(e.orders) * scale
      [] key = "avg" -> (SumTotals(e.orders) * scale) \div Len(e.orders)
      [] OTHER -> Len(e.orders) * scale

\* names lists, in this order, min(5, n) different entries of totals, the
\* numbers keys[name] not rising along the list and no entry left out
\* having a larger number than one listed
RanksTopFive(names, entries, keys) ==
    /\ Len(names) = (IF Len(entries) < 5 THEN Len(entries) ELSE 5)
    /\ \A i \in 1..Len(names) : \E k \in 1..Len(entries) : entries[k].name = names[i]
    /\ \A i, j \in 1..Len(names) : names[i] = names[j] => i = j
    /\ \A i, j \in 1..Len(names) : i < j => keys[names[i]] >= keys[names[j]]
    /\ \A k \in 1..Len(entries) :
          (\A i \in 1..Len(names) : names[i] # entries[k].name)
          => \A i \in 1..Len(names) : keys[names[i]] >= keys[entries[k].name]

\* the names of the rows of a table
RowNames(table) == [i \in 1..Len(table) |-> table[i][1]]

\* C22: with key revenue or quantity the top-dishes report lists the up to
\* five dishes highest on that key in numerically descending order, and with
\* key count, total or avg the top-customers report lists the up to five
\* customers highest on that key in numerically descending order.
C22_TopRankedByKey ==
    /\ (/\ ~IsNone(shown) /\ shown.by = "top_dishes"
        /\ query.report_sort \in {Some("quantity"), Some("revenue")})
       => LET entries == DishTotals(query.orders)
              scale == AllQuantities(query.orders)
          IN  RanksTopFive(RowNames(shown.result), entries,
                           [name \in {entries[k].name : k \in 1..Len(entries)} |->
                              DishKey(CHOOSE r \in {entries[k] : k \in 1..Len(entries)} :
                                          r.name = name,
                                      The(query.report_sort), scale)])
    /\ (/\ ~IsNone(shown) /\ shown.by = "top_customers"
        /\ query.report_sort \in {Some("count"), Some("total"), Some("avg")})
       => LET entries == CustomerTotals(query.orders)
          IN  RanksTopFive(RowNames(shown.result), entries,
                           [name \in {entries[k].name : k \in 1..Len(entries)} |->
                              CustomerKey(CHOOSE e \in {entries[k] : k \in 1..Len(entries)} :
                                              e.name = name,
                                          The(query.report_sort), 60)])

-----------------------------------------------------------------------------
\* the orders that carry the tag, case apart
Tagged(orders, tag) ==
    LET has(order) == \E i \in 1..Len(order.tags) : Lower(order.tags[i]) = Lower(tag)
    IN  SelectSeq(orders, has)

\* the table has for every tag of the orders one row, case apart, with the
\* number and the summed totals of the orders that carry the tag
TagRowsRight(table, orders) ==
    \A k \in 1..Len(orders) : \A t \in 1..Len(orders[k].tags) :
        LET tag == orders[k].tags[t]
            rows == {i \in 1..Len(table) : Lower(table[i][1]) = Lower(tag)}
        IN  /\ Cardinality(rows) = 1
            /\ \A i \in rows :
                  /\ table[i][2] = Len(Tagged(orders, tag))
                  /\ table[i][3] = FormatMoney(Rat(SumTotals(Tagged(orders, tag)), 1))

\* C23: the tag revenue breakdown of the order listing and the top-tags
\* summary show one row per tag, case apart, with the number of orders that
\* carry the tag and the sum of their full order totals.
C23_TagsFoldedAndDoubleCounted ==
    (~IsNone(shown) /\ shown.by \in {"tag_revenue_breakdown", "top_tags"})
    => TagRowsRight(shown.result, query.orders)

-----------------------------------------------------------------------------
GroupsFound == ~IsNone(shown) /\ shown.by = "find_duplicate_groups"

\* the names of the dishes of an order, quantities and case apart
DishNamesFolded(order) ==
    {Strip(Lower(order.dishes.dicts[k].name)) : k \in 1..Len(order.dishes.dicts)}

\* the two orders are in one group of the list
InCommonGroup(groups, a, b) ==
    \E g \in 1..Len(groups) :
        /\ \E m \in 1..Len(groups[g]) : groups[g][m] = a
        /\ \E m \in 1..Len(groups[g]) : groups[g][m] = b

\* C24: without exact_match_only, _find_duplicate_groups puts two orders of
\* one customer (names compared case apart) into a common group exactly
\* when their dish-name sets are equal and their order times differ by at
\* most time_window minutes, whatever their quantities, totals and statuses.
C24_RelaxedDuplicates ==
    (GroupsFound /\ ~query.args.exact_match_only)
    => \A i, j \in 1..Len(query.orders) :
          LET a == query.orders[i]
              b == query.orders[j]
              apart == IF a.order_time < b.order_time
                       THEN TotalSeconds(a.order_time, b.order_time)
                       ELSE TotalSeconds(b.order_time, a.order_time)
          IN  (i # j /\ Lower(a.customer_name) = Lower(b.customer_name))
              => (InCommonGroup(shown.result, a, b)
                  <=> /\ DishNamesFolded(a) = DishNamesFolded(b)
                      /\ apart <= query.args.time_window * 60)

\* orders 1 and 2 (3 minutes apart, 'p,q' and 'q:2,p', customers 'A' and
\* 'a') are grouped with window 5 although order 3 differs from them in
\* total and status
C24_Witness ==
    /\ GroupsFound
    /\ ~query.args.exact_match_only
    /\ ~query.args.ignore_total
    /\ query.args.time_window = 5
    /\ Len(query.orders) >= 3
    /\ query.orders[1].order_id = 1
    /\ query.orders[2].order_id = 2
    /\ query.orders[3].order_id = 3
    /\ InCommonGroup(shown.result, query.orders[1], query.orders[2])
    /\ InCommonGroup(shown.result, query.orders[1], query.orders[3])

-----------------------------------------------------------------------------
\* C25: in the output of one check-duplicates run every group has at least
\* two orders and no order is in two groups.
C25_GroupsDisjoint ==
    (~IsNone(shown) /\ shown.by = "check_duplicates")
    => LET groups == shown.result.groups IN
       /\ \A g \in 1..Len(groups) : Len(groups[g]) >= 2
       /\ \A g, h \in 1..Len(groups) : \A m \in 1..Len(groups[g]) :
             \A n \in 1..Len(groups[h]) :
                groups[g][m] = groups[h][n] => (g = h /\ m = n)

-----------------------------------------------------------------------------
\* invocation e wrote first and invocation l wrote afterwards, and each had
\* read its copy of the file before the other opened the file for writing
ReadBeforeWrites(e, l) ==
    /\ ~IsNone(procs)
    /\ procs.inv[e].at = "done" /\ procs.inv[e].wrote_at > 0
    /\ procs.inv[l].at = "done" /\ procs.inv[l].wrote_at > 0
    /\ procs.inv[e].wrote_at < procs.inv[l].open_at
    /\ procs.inv[l].read_at < procs.inv[e].open_at

\* the record the invocation handed to save_order is not in the file
Lost(p) ==
    \A i \in 1..Len(store) : store[i] # ToDict(The(procs.inv[p].order))

\* C26: when two invocations interleave so that each reads the file before
\* the other writes it, the file afterwards is the later writer's copy with
\* the later writer's order put in, both invocations report their change,
\* and the earlier writer's change is not in the file (unless both saved
\* the same record).
C26_LaterWriteOverwrites ==
    \A e, l \in Invocations :
        ReadBeforeWrites(e, l)
        => /\ procs.file = "whole"
           /\ store = SaveOrder(procs.inv[l].orders, The(procs.inv[l].order))
           /\ procs.inv[e].outcome = "updated"
           /\ procs.inv[l].outcome = "updated"
           /\ (The(procs.inv[e].order) # The(procs.inv[l].order)) => Lost(e)

\* invocation 1 set order 1 to preparing, invocation 2 then wrote its copy
\* with order 2 canceled: order 1 is new again and has lost its history
\* entry
C26_Witness ==
    /\ ReadBeforeWrites(1, 2)
    /\ procs.inv[1].args.id = 1 /\ procs.inv[1].args.status = "preparing"
    /\ procs.inv[2].args.id = 2 /\ procs.inv[2].args.status = "canceled"
    /\ Lost(1)
    /\ store[1].status = "new"
    /\ Len(store[1].status_history) = 1
    /\ store[2].status = "canceled"

-----------------------------------------------------------------------------
\* C27: whatever commands have run since the store was empty, every stored
\* order's status is the status of the last entry of its status_history.
C27_StatusIsLastOfHistory ==
    \A i \in 1..Len(store) :
        /\ store[i].status_history # <<>>
        /\ store[i].status
             = store[i].status_history[Len(store[i].status_history)].status

\* an order that an update moved to delivered and a rollback brought back
\* to preparing
C27_Witness ==
    /\ IsRollback
    /\ last.outcome = "rolled_back"
    /\ Len(store) = 2
    /\ RecOf(pre, last.args.id).status = "delivered"
    /\ RecOf(store, last.args.id).status = "preparing"
    /\ \E i \in 1..Len(store) :
          /\ store[i].order_id # last.args.id
          /\ store[i].status = "canceled"
          /\ Len(store[i].status_history) = 2

-----------------------------------------------------------------------------
\* C28: whatever commands have run one at a time, every two consecutive
\* entries of an order's status_history are a transition of the table, also
\* after a rollback has taken the order out of delivered or canceled.
C28_HistoryIsPath ==
    \A i \in 1..Len(store) :
        \A k \in 1..(Len(store[i].status_history) - 1) :
            InList(store[i].status_history[k + 1].status,
                   VALID_TRANSITIONS[store[i].status_history[k].status])

\* an order that went new, preparing, canceled is rolled back out of
\* canceled: its history is new, preparing again
C28_Witness ==
    /\ IsRollback
    /\ last.outcome = "rolled_back"
    /\ LET before == RecOf(pre, last.args.id)
           after == RecOf(store, last.args.id)
       IN  /\ before.status = "canceled"
           /\ Len(before.status_history) = 3
           /\ after.status = "preparing"
           /\ Len(after.status_history) = 2
           /\ after.status_history[1].status = "new"


-----------------------------------------------------------------------------
\* the list without its record of that ID
RECURSIVE Without(_, _)
Without(orders, order_id) ==
    IF orders = <<>> THEN <<>>
    ELSE (IF Head(orders).order_id = order_id THEN <<>> ELSE <<Head(orders)>>)
         \o Without(Tail(orders), order_id)

\* C29: delete_order of a stored ID returns true and leaves the file as it
\* was without the record of that ID, records that get_orders skips
\* included; delete_order of an ID that is not stored returns false and
\* leaves the file unchanged.
C29_DeleteTouchesOneRecord ==
    last.cmd = "delete_order"
    => IF Stored(pre, last.args.id)
       THEN /\ last.outcome = "deleted"
            /\ store = Without(pre, last.args.id)
       ELSE /\ last.outcome = "not_deleted"
            /\ store = pre

-----------------------------------------------------------------------------
\* the dishes an order built from the record has
DishesHeld(record) == ParseDishes(record.dishes)

\* C30: update without --dry-run on a stored order, its arguments passing
\* the validation, leaves a record that holds every requested value
\* (customer name, total, note, dishes, tags added and removed) and the
\* order_id, status, status_history, delivery_info and assignment_history
\* it had; with --dry-run the file is unchanged.
C30_UpdateStoresRequested ==
    (last.cmd = "update" /\ last.outcome \in {"updated", "no_changes", "dry_run"})
    => LET args == last.args
           before == RecOf(pre, args.id)
           after == RecOf(store, args.id)
       IN  IF args.dry_run THEN store = pre
           ELSE /\ ~IsNone(args.customer_name)
                      => after.customer_name = The(args.customer_name)
                /\ ~IsNone(args.total) => after.order_total = The(args.total)
                /\ ~IsNone(args.note) => after.notes = The(args.note)
                /\ ~IsNone(args.dishes)
                      => DishesHeld(after)
                           = ParseDishes(NameList(
                                 The(ParseDishesList(The(args.dishes)))))
                /\ ParseTags(DishStr(after.tags))
                     = RemoveTags(AddTags(ParseTags(DishStr(before.tags)),
                                          args.add_tag),
                                  args.remove_tag)
                /\ after.order_id = before.order_id
                /\ after.status = before.status
                /\ after.status_history = before.status_history
                /\ after.delivery_info = before.delivery_info
                /\ after.assignment_history = before.assignment_history
=============================================================================
